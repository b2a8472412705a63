--------------------------- MODULE DispatcherCalls ---------------------------
(***************************************************************************)
(* Calls through c10::Dispatcher: the dispatch table of one operator       *)
(* (OperatorEntry) composed with backendFallbackKernels_, a second         *)
(* LeftRight shared by all operators.  A call holds one instance of each   *)
(* while it picks a kernel by dispatch_ and until that kernel returns.     *)
(* A nested call, of a kernel that calls the dispatcher again, is one more *)
(* member of Threads: readers do not wait, so the model only lacks the     *)
(* order in which nested calls end.                                        *)
(***************************************************************************)
EXTENDS OperatorEntry

CONSTANTS FbRegs,    \* backend fallback kernels being registered
          Functors,  \* those that own a functor object (not a boxed function)
          NoKey      \* nullopt: a call without tensor arguments

ASSUME FbAssumption ==
    /\ Functors \subseteq FbRegs /\ FbRegs \cap Regs = {}
    /\ None \notin FbRegs /\ NoKey \notin Slots

VARIABLES
    fallback,    \* the two instances of backendFallbackKernels_
    hollow,      \* keys whose kernel was moved from, in each instance
    fbFg,        \* its foreground instance
    fbWriter,    \* the thread inside its write
    fbKey, fbReg,\* what that thread is writing
    fbReading,   \* the instance each call is reading
    fbStatus,    \* as status, for fallback registrations
    fbWhere,     \* the dispatch key captured by the fallback's handle
    key,         \* the dispatch key of the call each thread is in
    runs         \* the kernel that call has picked

fbVars == <<fallback, hollow, fbFg, fbWriter, fbKey, fbReg, fbReading, fbStatus, fbWhere>>
callVars == <<key, runs>>
allVars == <<vars, fbVars, callVars>>

fbBg == 1 - fbFg

InitAll ==
    /\ Init
    /\ fallback = [i \in Insts |-> [k \in Keys |-> None]]
    /\ hollow = [i \in Insts |-> {}]
    /\ fbFg = 0
    /\ fbWriter = None /\ fbKey = None /\ fbReg = None
    /\ fbReading = [t \in Threads |-> None]
    /\ fbStatus = [r \in FbRegs |-> "free"]
    /\ fbWhere = [r \in FbRegs |-> None]
    /\ key = [t \in Threads |-> None]
    /\ runs = [t \in Threads |-> None]

-----------------------------------------------------------------------------
\* The operator's own kernels, as in OperatorEntry.
OperatorWrite(t) ==
    /\ fbWriter # t
    /\ \/ \E r \in Regs : \E s \in Slots : RegisterKernel(t, r, s)
       \/ \E r \in Regs : RegisterUndefined(t, r)
       \/ \E r \in Regs : DeregisterKernel(t, r)
       \/ FinishWrite(t)
    /\ UNCHANGED <<fbVars, callVars>>

CanLockFb(t) == fbWriter = None /\ writer # t /\ reading[t] = None

\* The first half of backendFallbackKernels_.write is done: new readers get
\* the changed instance.
FlipFallback(t, r, k) ==
    /\ fbFg' = fbBg
    /\ fbWriter' = t /\ fbKey' = k /\ fbReg' = r
    /\ UNCHANGED <<vars, callVars, fbReading>>

\* emplace(dispatchKey, std::move(kernel)) into the background instance.
RegisterFallback(t, r, k) ==
    /\ CanLockFb(t) /\ fbStatus[r] = "free" /\ fallback[fbBg][k] = None
    /\ fallback' = [fallback EXCEPT ![fbBg][k] = r]
    /\ hollow' = [hollow EXCEPT ![fbBg] = @ \ {k}]
    /\ fbStatus' = [fbStatus EXCEPT ![r] = "pending"]
    /\ fbWhere' = [fbWhere EXCEPT ![r] = k]
    /\ FlipFallback(t, r, k)

\* Faulty variant: the new kernel is stored before the check throws.
RejectTooLate(t, r, k) ==
    /\ CanLockFb(t) /\ fbStatus[r] = "free" /\ fallback[fbBg][k] # None
    /\ fallback' = [fallback EXCEPT ![fbBg][k] = r]
    /\ UNCHANGED <<vars, callVars, hollow, fbFg, fbWriter, fbKey, fbReg, fbReading, fbStatus, fbWhere>>

\* There is one already: TORCH_CHECK throws, LeftRight copies the foreground
\* instance over the background one, the caller gets no handle.
RejectFallback(t, r, k) ==
    /\ CanLockFb(t) /\ fbStatus[r] = "free" /\ fallback[fbBg][k] # None
    /\ fallback' = [fallback EXCEPT ![fbBg] = fallback[fbFg]]
    /\ hollow' = [hollow EXCEPT ![fbBg] = hollow[fbFg]]
    /\ UNCHANGED <<vars, callVars, fbFg, fbWriter, fbKey, fbReg, fbReading, fbStatus, fbWhere>>

DeregisterFallback(t, r) ==
    /\ CanLockFb(t) /\ fbStatus[r] = "held"
    /\ fallback' = [fallback EXCEPT ![fbBg][fbWhere[r]] = None]
    /\ hollow' = [hollow EXCEPT ![fbBg] = @ \ {fbWhere[r]}]
    /\ fbStatus' = [fbStatus EXCEPT ![r] = "closing"]
    /\ UNCHANGED fbWhere
    /\ FlipFallback(t, r, fbWhere[r])

\* Faulty variant: the other instance is changed under its readers.
FinishFallbackEarly(t) ==
    /\ fbWriter = t
    /\ LET registering == fbStatus[fbReg] = "pending" IN
       /\ fallback' = [fallback EXCEPT ![fbBg][fbKey] = IF registering THEN fbReg ELSE None]
       /\ fbStatus' = [fbStatus EXCEPT ![fbReg] = IF registering THEN "held" ELSE "free"]
       /\ fbWhere' = [fbWhere EXCEPT ![fbReg] = IF registering THEN @ ELSE None]
    /\ fbWriter' = None /\ fbKey' = None /\ fbReg' = None
    /\ UNCHANGED <<vars, callVars, hollow, fbFg, fbReading>>

\* The second half: the other instance gets the same functor applied, that is
\* what the first emplace left of the kernel after moving it away.
FinishFallback(t) ==
    /\ fbWriter = t
    /\ \A u \in Threads : fbReading[u] # fbBg
    /\ LET registering == fbStatus[fbReg] = "pending" IN
       /\ fallback' = [fallback EXCEPT ![fbBg][fbKey] = IF registering THEN fbReg ELSE None]
       /\ hollow' = [hollow EXCEPT ![fbBg] =
                       IF registering /\ fbReg \in Functors THEN @ \cup {fbKey} ELSE @ \ {fbKey}]
       /\ fbStatus' = [fbStatus EXCEPT ![fbReg] = IF registering THEN "held" ELSE "free"]
       /\ fbWhere' = [fbWhere EXCEPT ![fbReg] = IF registering THEN @ ELSE None]
    /\ fbWriter' = None /\ fbKey' = None /\ fbReg' = None
    /\ UNCHANGED <<vars, callVars, fbFg, fbReading>>

-----------------------------------------------------------------------------
\* Dispatcher::dispatch_: the operator's kernel for the key, else the
\* backend's fallback for the key, else the operator's catch-all kernel.
Pick(i, f, k) ==
    CASE k # NoKey /\ table[i][k] # None -> table[i][k]
      [] k # NoKey /\ table[i][k] = None /\ fallback[f][k] # None -> fallback[f][k]
      [] OTHER -> table[i][CatchAll]

\* callUnboxed, callUnboxedOnly, callBoxed: enter the dispatch table ...
BeginCall(t, k) ==
    /\ fbWriter # t
    /\ BeginRead(t)
    /\ key' = [key EXCEPT ![t] = k]
    /\ UNCHANGED <<fbVars, runs>>

\* ... enter the fallback table and pick a kernel ...
Dispatch(t) ==
    /\ reading[t] # None /\ fbReading[t] = None
    /\ Pick(reading[t], fbFg, key[t]) # None
    /\ fbReading' = [fbReading EXCEPT ![t] = fbFg]
    /\ runs' = [runs EXCEPT ![t] = Pick(reading[t], fbFg, key[t])]
    /\ UNCHANGED <<vars, fallback, hollow, fbFg, fbWriter, fbKey, fbReg, fbStatus, fbWhere, key>>

\* ... or find none, and throw out of both tables ...
DispatchFails(t) ==
    /\ reading[t] # None /\ fbReading[t] = None
    /\ Pick(reading[t], fbFg, key[t]) = None
    /\ EndRead(t)
    /\ key' = [key EXCEPT ![t] = None]
    /\ UNCHANGED <<fbVars, runs>>

\* ... and leave both when the kernel returns or throws.
EndCall(t) ==
    /\ fbReading[t] # None
    /\ EndRead(t)
    /\ fbReading' = [fbReading EXCEPT ![t] = None]
    /\ key' = [key EXCEPT ![t] = None]
    /\ runs' = [runs EXCEPT ![t] = None]
    /\ UNCHANGED <<fallback, hollow, fbFg, fbWriter, fbKey, fbReg, fbStatus, fbWhere>>

NextAll ==
    \E t \in Threads :
        \/ OperatorWrite(t)
        \/ \E r \in FbRegs : \E k \in Keys : RegisterFallback(t, r, k) \/ RejectFallback(t, r, k)
        \/ \E r \in FbRegs : DeregisterFallback(t, r)
        \/ FinishFallback(t)
        \/ \E k \in Keys \cup {NoKey} : BeginCall(t, k)
        \/ Dispatch(t)
        \/ DispatchFails(t)
        \/ EndCall(t)

SpecAll == InitAll /\ [][NextAll]_allVars

\* Kernels return and threads that can go on do.
FairSpecAll ==
    /\ SpecAll
    /\ \A t \in Threads :
          /\ WF_allVars(FinishWrite(t) /\ UNCHANGED <<fbVars, callVars>>)
          /\ WF_allVars(FinishFallback(t))
          /\ WF_allVars(Dispatch(t) \/ DispatchFails(t))
          /\ WF_allVars(EndCall(t))

-----------------------------------------------------------------------------
\* Every variable has its type.
TypeOKAll ==
    /\ TypeOK
    /\ fallback \in [Insts -> [Keys -> FbRegs \cup {None}]]
    /\ hollow \in [Insts -> SUBSET Keys]
    /\ fbFg \in Insts /\ fbWriter \in Threads \cup {None}
    /\ fbKey \in Keys \cup {None} /\ fbReg \in FbRegs \cup {None}
    /\ fbReading \in [Threads -> Insts \cup {None}]
    /\ fbStatus \in [FbRegs -> {"free", "pending", "held", "closing"}]
    /\ fbWhere \in [FbRegs -> Keys \cup {None}]
    /\ key \in [Threads -> Keys \cup {NoKey, None}]
    /\ runs \in [Threads -> Regs \cup FbRegs \cup {None}]

\* dispatch_ returns a reference into the instances the call holds; as long
\* as the call lasts they still hold the kernel it runs, at its place in the
\* order of precedence, whatever other threads (de)register.
PickStable ==
    \A t \in Threads : runs[t] # None => runs[t] = Pick(reading[t], fbReading[t], key[t])

\* Every variable has its type, and a kernel runs only while its registration,
\* of either kind, has not been handed back to the library that made it.
RunsOnlyLive == TypeOKAll /\
    \A t \in Threads :
        /\ runs[t] \in Regs => status[runs[t]] \in {"pending", "held", "closing"}
        /\ runs[t] \in FbRegs => fbStatus[runs[t]] \in {"pending", "held", "closing"}

\* The assertion of deregisterBackendFallbackKernel_ (Dispatcher.cpp:134),
\* that one entry is removed, holds for every handle in both instances, also
\* after registrations for the same key were refused.
FallbackHandleResolves ==
    fbWriter = None =>
        \A r \in FbRegs : \A i \in Insts :
            fbStatus[r] = "held" => fallback[i][fbWhere[r]] = r

\* "either functorFactory_ or functor_ must be set" (KernelFunction.h:365)
\* for a kernel that a call runs.
FunctorSet ==
    \A t \in Threads : runs[t] \in Functors => key[t] \notin hollow[fbReading[t]]

\* Every write of either table returns and every call ends, however they
\* overlap: a call holds both tables, a writer waits for calls with one mutex.
AllReturn ==
    \A t \in Threads :
        /\ fbWriter = t ~> fbWriter # t
        /\ writer = t ~> writer # t
        /\ reading[t] # None ~> reading[t] = None
=============================================================================
