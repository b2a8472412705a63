---------------------------- MODULE ParallelNative ----------------------------
(***************************************************************************)
(* The native back end of at::parallel_for, parallel_reduce and            *)
(* intraop_launch (ParallelNative.cpp): the number of threads, which is    *)
(* set at most once, the pool, created on first use, and the jobs whose    *)
(* chunks its workers and the calling thread share.  A job's errors and    *)
(* futures are locals of _parallel_run that the tasks hold by reference.   *)
(* A future of ivalue::Future (module Future) is its "completed" bit here. *)
(* c10::ThreadPool is outside the repository: workers take tasks in order, *)
(* drop a task's exception, and a pool without workers refuses tasks.      *)
(***************************************************************************)
EXTENDS Integers, Sequences, FiniteSets, SequencesExt, FiniteSetsExt

CONSTANTS Callers,    \* threads outside the pool
          MaxWorkers, \* bound: pool threads
          Jobs,       \* parallel_for, parallel_reduce and launch calls
          Default,    \* intraop_default_num_threads()
          Settings,   \* numbers of threads the user may set
          Lens,       \* lengths of ranges, end - begin
          Grains,     \* grain sizes
          Nothing

NOT_SET == -1
CONSUMED == -2
Workers == 1..MaxWorkers
Agents == Callers \cup Workers

ASSUME LoopsAssumption ==
    /\ MaxWorkers \in Nat /\ Default \in 1..(MaxWorkers + 1)
    /\ Settings \subseteq 1..(MaxWorkers + 1)
    /\ Lens \subseteq Nat \ {0} /\ Grains \subseteq Nat
    /\ Nothing \notin Int

VARIABLES
    setting,   \* num_intraop_threads
    pool,      \* the number of workers of the pool, Nothing before there is one
    queue,     \* tasks <<job, task_id>> and functions <<job, Nothing>> in the pool
    stack,     \* what every thread is executing, innermost first
    region,    \* in_parallel_region_ of every thread
    result,    \* how far a job is, and how it ended
    range,     \* the length, grain and, for a reduction, size of results of a job
    tasks,     \* num_tasks and chunk_size of _parallel_run
    nextTask,  \* the task to be given to the pool next
    err,       \* <<err_flag, eptr>>
    futures,   \* the completed futures
    threw,     \* the tasks whose function threw
    hits       \* how often each index of the range was handed to f

jobVars == <<result, range, tasks, nextTask, err, futures, threw, hits>>
parVars == <<setting, pool, queue, stack, region, jobVars>>

NoRange == [len |-> 0, grain |-> 0, slots |-> Nothing]
Indices == UNION {0..(len - 1) : len \in Lens}

ParInit ==
    /\ setting = NOT_SET /\ pool = Nothing /\ queue = <<>>
    /\ stack = [a \in Agents |-> <<>>]
    /\ region = [a \in Agents |-> FALSE]
    /\ result = [j \in Jobs |-> "fresh"]
    /\ range = [j \in Jobs |-> NoRange]
    /\ tasks = [j \in Jobs |-> [num |-> 0, chunk |-> 0]]
    /\ nextTask = [j \in Jobs |-> 0]
    /\ err = [j \in Jobs |-> <<FALSE, Nothing>>]
    /\ futures = [j \in Jobs |-> {}]
    /\ threw = [j \in Jobs |-> {}]
    /\ hits = [j \in Jobs |-> [x \in Indices |-> 0]]

-----------------------------------------------------------------------------
\* The number of threads, and its life: NOT_SET -> positive -> CONSUMED.
NumThreads ==
    IF setting > 0 THEN setting
    ELSE IF setting = NOT_SET THEN Default ELSE pool + 1

\* Faulty variant: the pool has a worker for the caller, too.
NumPoolThreadsPlusOne == IF setting = NOT_SET THEN Default ELSE setting

\* One thread of a job is its caller.
NumPoolThreads == (IF setting = NOT_SET THEN Default ELSE setting) - 1

\* A later call compares the numbers and warns, which changes nothing.
SetNumThreads(c, k) ==
    /\ stack[c] = <<>> /\ setting = NOT_SET
    /\ setting' = k
    /\ UNCHANGED <<pool, queue, stack, region, jobVars>>

\* Faulty variant: only tasks of parallel_for count as being in a region.
InTask(a) == region[a]

InRegion(a) == region[a] \/ (setting = CONSUMED /\ a \in Workers)

\* _get_intraop_pool().run(task): the first call creates the pool.
PoolAfter == IF pool = Nothing THEN NumPoolThreads ELSE pool
Submit(task) ==
    /\ setting' = CONSUMED /\ pool' = PoolAfter
    /\ queue' = IF PoolAfter = 0 THEN queue ELSE Append(queue, task)

Divup(x, y) == (x + y - 1) \div y

\* Faulty variant: the division that gives the number of tasks rounds down.
NumTasksDown(len, grain) ==
    IF len < grain THEN [num |-> 1, chunk |-> len]
    ELSE LET chunk == Max({grain, Divup(len, NumThreads)})
         IN  [num |-> len \div chunk, chunk |-> chunk]

NumTasks(len, grain) ==
    IF len < grain THEN [num |-> 1, chunk |-> len]
    ELSE LET chunk == Max({grain, Divup(len, NumThreads)})
         IN  [num |-> Divup(len, chunk), chunk |-> chunk]

-----------------------------------------------------------------------------
Top(a) == Head(stack[a])
Push(a, frame) == stack' = [stack EXCEPT ![a] = <<frame>> \o @]
Pop(a) == stack' = [stack EXCEPT ![a] = Tail(@)]
ReplaceTop(a, frame) == stack' = [stack EXCEPT ![a] = <<frame>> \o Tail(@)]

\* Frames: a call of parallel_for or parallel_reduce before it looked at the
\* number of tasks, the same inside _parallel_run, a task, a launched function.
Enter(j) == [at |-> "enter", job |-> j, id |-> Nothing]
Run(j) == [at |-> "run", job |-> j, id |-> Nothing]
Task(where, j, i) == [at |-> where, job |-> j, id |-> i]
Func(j) == [at |-> "func", job |-> j, id |-> Nothing]

\* User code runs in a caller, in a chunk's function or in a launched one.
InUserCode(a) ==
    \/ a \in Callers /\ stack[a] = <<>>
    \/ stack[a] # <<>> /\ Top(a).at \in {"body", "func"}

IsAt(a, where) == stack[a] # <<>> /\ Top(a).at = where

\* parallel_for or parallel_reduce runs f itself, on the whole range.
RunInline(a, j, len, grain) ==
    /\ InUserCode(a) /\ result[j] = "fresh"
    /\ len < grain \/ InRegion(a)
    /\ range' = [range EXCEPT ![j] = [len |-> len, grain |-> grain, slots |-> Nothing]]
    /\ hits' = [hits EXCEPT ![j] = [x \in Indices |-> IF x < len THEN 1 ELSE 0]]
    /\ \/ /\ result' = [result EXCEPT ![j] = "returned"]
          /\ UNCHANGED <<threw, err>>
       \/ /\ result' = [result EXCEPT ![j] = "raised"]
          /\ threw' = [threw EXCEPT ![j] = {0}]
          /\ err' = [err EXCEPT ![j] = <<FALSE, 0>>]
    /\ UNCHANGED <<setting, pool, queue, stack, region, tasks, nextTask, futures>>

\* Otherwise parallel_reduce first sizes its vector of results.
EnterParallel(a, j, len, grain, slots) ==
    /\ InUserCode(a) /\ result[j] = "fresh"
    /\ ~ (len < grain) /\ ~ InRegion(a)
    /\ slots \in {Nothing, NumTasks(len, grain).num}
    /\ result' = [result EXCEPT ![j] = "running"]
    /\ range' = [range EXCEPT ![j] = [len |-> len, grain |-> grain, slots |-> slots]]
    /\ Push(a, Enter(j))
    /\ UNCHANGED <<setting, pool, queue, region, tasks, nextTask, err, futures, threw, hits>>

\* _parallel_run computes the number of tasks again and makes the futures.
StartRun(a) ==
    /\ IsAt(a, "enter")
    /\ LET j == Top(a).job IN
          /\ tasks' = [tasks EXCEPT ![j] = NumTasks(range[j].len, range[j].grain)]
          /\ nextTask' = [nextTask EXCEPT ![j] = 1]
          /\ ReplaceTop(a, Run(j))
    /\ UNCHANGED <<setting, pool, queue, region, result, range, err, futures, threw, hits>>

\* _run_with_pool submits the tasks 1.. one by one; a pool without workers
\* throws, which ends the job.
SubmitTask(a) ==
    /\ IsAt(a, "run")
    /\ LET j == Top(a).job IN
          /\ nextTask[j] < tasks[j].num
          /\ Submit(<<j, nextTask[j]>>)
          /\ \/ /\ PoolAfter # 0
                /\ nextTask' = [nextTask EXCEPT ![j] = @ + 1]
                /\ UNCHANGED <<stack, result>>
             \/ /\ PoolAfter = 0
                /\ result' = [result EXCEPT ![j] = "refused"]
                /\ Pop(a)
                /\ UNCHANGED nextTask
    /\ UNCHANGED <<region, range, tasks, err, futures, threw, hits>>

Start(j, i) == i * tasks[j].chunk
End(j, i) == Min({range[j].len, Start(j, i) + tasks[j].chunk})

\* A task enters its chunk, unless the chunk is empty.
BeginTask(a, j, i) ==
    /\ Push(a, Task(IF Start(j, i) < range[j].len THEN "body" ELSE "mark", j, i))
    /\ region' = [region EXCEPT ![a] = Start(j, i) < range[j].len]

\* The caller runs task 0 itself when the others are submitted.
RunFirst(a) ==
    /\ IsAt(a, "run")
    /\ LET j == Top(a).job IN
          /\ nextTask[j] = tasks[j].num
          /\ nextTask' = [nextTask EXCEPT ![j] = @ + 1]
          /\ BeginTask(a, j, 0)
    /\ UNCHANGED <<setting, pool, queue, result, range, tasks, err, futures, threw, hits>>

\* A worker takes the oldest task or function.
TakeTask(w) ==
    /\ pool # Nothing /\ w <= pool /\ stack[w] = <<>> /\ queue # <<>>
    /\ queue' = Tail(queue)
    /\ LET task == Head(queue) IN
          IF task[2] = Nothing THEN Push(w, Func(task[1])) /\ UNCHANGED region
          ELSE BeginTask(w, task[1], task[2])
    /\ UNCHANGED <<setting, pool, jobVars>>

\* f returns or throws; its region ends, and the first error wins the flag.
EndBody(a, throws) ==
    /\ IsAt(a, "body")
    /\ LET j == Top(a).job
           i == Top(a).id
       IN  /\ hits' = [hits EXCEPT ![j] = [x \in Indices |->
                 IF Start(j, i) <= x /\ x < End(j, i) THEN @[x] + 1 ELSE @[x]]]
           /\ threw' = [threw EXCEPT ![j] = IF throws THEN @ \cup {i} ELSE @]
           /\ err' = [err EXCEPT ![j] = <<@[1] \/ throws, @[2]>>]
           /\ ReplaceTop(a, Task(IF throws /\ ~err[j][1] THEN "caught" ELSE "mark", j, i))
    /\ region' = [region EXCEPT ![a] = FALSE]
    /\ UNCHANGED <<setting, pool, queue, result, range, tasks, nextTask, futures>>

\* The task that won the flag stores its exception.
StoreError(a) ==
    /\ IsAt(a, "caught")
    /\ err' = [err EXCEPT ![Top(a).job] = <<@[1], Top(a).id>>]
    /\ ReplaceTop(a, Task("mark", Top(a).job, Top(a).id))
    /\ UNCHANGED <<setting, pool, queue, region, result, range, tasks, nextTask, futures, threw, hits>>

\* Faulty variant: the future is completed before the exception is stored.
MarkFirst(a) ==
    /\ IsAt(a, "mark") \/ IsAt(a, "caught")
    /\ futures' = [futures EXCEPT ![Top(a).job] = @ \cup {Top(a).id}]
    /\ IF IsAt(a, "caught") THEN UNCHANGED stack ELSE Pop(a)
    /\ UNCHANGED <<setting, pool, queue, region, result, range, tasks, nextTask, err, threw, hits>>

\* The last statement of a task completes its future.
MarkFuture(a) ==
    /\ IsAt(a, "mark")
    /\ futures' = [futures EXCEPT ![Top(a).job] = @ \cup {Top(a).id}]
    /\ Pop(a)
    /\ UNCHANGED <<setting, pool, queue, region, result, range, tasks, nextTask, err, threw, hits>>

\* Faulty variant: an error ends the wait for the other tasks.
ReturnEarly(a) ==
    /\ IsAt(a, "run")
    /\ LET j == Top(a).job IN
          /\ nextTask[j] > tasks[j].num
          /\ futures[j] = 0..(tasks[j].num - 1) \/ err[j][2] # Nothing
          /\ result' = [result EXCEPT ![j] = IF err[j][2] = Nothing THEN "returned" ELSE "raised"]
    /\ Pop(a)
    /\ UNCHANGED <<setting, pool, queue, region, range, tasks, nextTask, err, futures, threw, hits>>

\* All futures have been waited for: the job returns or rethrows.
Return(a) ==
    /\ IsAt(a, "run")
    /\ LET j == Top(a).job IN
          /\ nextTask[j] > tasks[j].num
          /\ futures[j] = 0..(tasks[j].num - 1)
          /\ result' = [result EXCEPT ![j] = IF err[j][2] = Nothing THEN "returned" ELSE "raised"]
    /\ Pop(a)
    /\ UNCHANGED <<setting, pool, queue, region, range, tasks, nextTask, err, futures, threw, hits>>

-----------------------------------------------------------------------------
\* intraop_launch, intraop_launch_future: into the pool, or at once.  The number
\* of threads is read and the pool asked for in one step: that set_num_threads(1)
\* comes in between (ParallelNative.cpp:239, 256), so that the pool has no workers
\* and throws, is left out here; EnterParallel has this case.
Launch(a, j) ==
    /\ InUserCode(a) /\ result[j] = "fresh"
    /\ IF ~InRegion(a) /\ NumThreads > 1
       THEN /\ Submit(<<j, Nothing>>)
            /\ result' = [result EXCEPT ![j] = IF PoolAfter = 0 THEN "refused" ELSE "launched"]
            /\ UNCHANGED stack
       ELSE /\ Push(a, Func(j))
            /\ result' = [result EXCEPT ![j] = "inline"]
            /\ UNCHANGED <<setting, pool, queue>>
    /\ UNCHANGED <<region, range, tasks, nextTask, err, futures, threw, hits>>

\* The function returns and its future is completed, or it throws: to its
\* caller, or to the pool, which drops the exception, and no future is.
EndFunc(a, throws) ==
    /\ IsAt(a, "func")
    /\ LET j == Top(a).job IN
          result' = [result EXCEPT ![j] =
             IF ~throws THEN "returned" ELSE IF @ = "inline" THEN "raised" ELSE "lost"]
    /\ Pop(a)
    /\ UNCHANGED <<setting, pool, queue, region, range, tasks, nextTask, err, futures, threw, hits>>

ParStep(a) ==
    \/ StartRun(a) \/ SubmitTask(a) \/ RunFirst(a)
    \/ \E throws \in BOOLEAN : EndBody(a, throws) \/ EndFunc(a, throws)
    \/ StoreError(a) \/ MarkFuture(a) \/ Return(a)

ParNext ==
    \/ \E c \in Callers : \E k \in Settings : SetNumThreads(c, k)
    \/ \E w \in Workers : TakeTask(w)
    \/ \E a \in Agents :
          \/ ParStep(a)
          \/ \E j \in Jobs :
                \/ Launch(a, j)
                \/ \E len \in Lens : \E grain \in Grains :
                      \/ RunInline(a, j, len, grain)
                      \/ \E slots \in {Nothing} \cup 0..Max(Lens \cup {1}) :
                            EnterParallel(a, j, len, grain, slots)

ParSpec == ParInit /\ [][ParNext]_parVars

\* Every thread executes what it has begun, functions end, and a pool worker
\* without work takes some.
ParFairSpec ==
    /\ ParSpec
    /\ \A a \in Agents : WF_parVars(ParStep(a))
    /\ \A w \in Workers : WF_parVars(TakeTask(w))

-----------------------------------------------------------------------------
\* Every variable has its type.
ParTypeOK ==
    /\ setting \in {NOT_SET, CONSUMED} \cup Settings
    /\ pool \in 0..MaxWorkers \cup {Nothing}
    /\ \A k \in 1..Len(queue) : queue[k][1] \in Jobs
    /\ region \in [Agents -> BOOLEAN]
    /\ \A j \in Jobs :
          /\ result[j] \in {"fresh", "running", "launched", "inline",
                            "returned", "raised", "refused", "lost"}
          /\ futures[j] \subseteq 0..tasks[j].num
          /\ nextTask[j] \in 0..(tasks[j].num + 1)

Ended(j) == result[j] \in {"returned", "raised", "refused"}

\* Every variable has its type; and tasks hold err_flag, eptr and futures by
\* reference: when _parallel_run has left, by whatever path, none of its tasks
\* is queued or running.
FrameAlive ==
    /\ ParTypeOK
    /\ \A j \in Jobs : Ended(j) =>
          /\ \A k \in 1..Len(queue) : queue[k][1] # j
          /\ \A a \in Agents : \A f \in 1..Len(stack[a]) : stack[a][f].job # j

\* parallel_for returns normally only when f has seen every index of the
\* range exactly once, whatever number of threads each reading showed.
EachIndexOnce ==
    \A j \in Jobs : result[j] = "returned" =>
        \A x \in Indices : hits[j][x] = IF x < range[j].len THEN 1 ELSE 0

\* A job over a range raises exactly if a call of f threw, and what it
\* rethrows is the exception of one of those calls.
ErrorIsRaised ==
    \A j \in Jobs : range[j] # NoRange =>
        /\ result[j] = "returned" => threw[j] = {}
        /\ result[j] = "raised" => err[j][2] \in threw[j]

\* What a job does for its caller: it returns when f was applied to the whole
\* range without an error, and otherwise throws what f threw.
JobsAnswer == EachIndexOnce /\ ErrorIsRaised

\* Once set, the number of threads every part of the program reads stays the
\* same, over the creation of the pool as well (the states documented beside
\* num_intraop_threads, ParallelNative.cpp:47).
NumThreadsFixed == [][setting # NOT_SET => NumThreads' = NumThreads]_parVars

\* "Then it will execute the function "f" [...] It will then write out the
\* result from each of these chunks into the intermediate result tensor"
\* (Parallel.h:80): the vector has one element for every task.
ResultsFit ==
    \A j \in Jobs : range[j].slots # Nothing /\ tasks[j].num > 0 =>
        tasks[j].num = range[j].slots

\* No cyclic waiting for workers: every call of parallel_for ends and every
\* launched function is run, also from within tasks and launched functions.
AllEnd ==
    \A j \in Jobs :
        /\ result[j] = "running" ~> Ended(j)
        /\ result[j] = "launched" ~> result[j] \in {"returned", "lost"}
=============================================================================
