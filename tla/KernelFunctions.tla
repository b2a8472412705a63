--------------------------- MODULE KernelFunctions ---------------------------
(***************************************************************************)
(* c10::KernelFunction inside of the dispatch table: calls find the        *)
(* KernelFunction of their slot and run it with its functor.  A kernel may *)
(* be registered with a factory; its functor_ is then made by the first    *)
(* call.  Registering copies a KernelFunction from the list of its slot    *)
(* into each instance of the table, and calls make the functor of the copy *)
(* they found, under no lock.                                              *)
(***************************************************************************)
EXTENDS OperatorEntry, FiniteSets

CONSTANTS Lazy,          \* registrations made with a functor factory
          UnboxedOnly,   \* registrations that cannot be called boxed
          MaxFunctors    \* bound on the functors that exist at one time

ASSUME KindsAssumption == Lazy \subseteq Regs /\ UnboxedOnly \subseteq Regs \ Lazy
ASSUME FunctorsAssumption == MaxFunctors \in Nat /\ Regs \cap 1..MaxFunctors = {}

VARIABLES
    functor,   \* functor_ of the KernelFunction in each slot of each instance
    call,      \* what each thread's call has done with its KernelFunction
    raced      \* the places whose functor_ two threads assigned, or copied, at once

kernelVars == <<vars, functor, call, raced>>

Idle == [stage |-> "idle", slot |-> None, functor |-> None]

KernelInit ==
    /\ Init
    /\ functor = [i \in Insts |-> [s \in Slots |-> None]]
    /\ call = [t \in Threads |-> Idle]
    /\ raced = {}

\* The functors kept alive by the KernelFunctions in lists and tables.
\* A kernel made without a factory has its functor, named like the
\* registration, from the start, in the list as well as in the copies.
Held == {functor[i][s] : i \in Insts, s \in Slots}
           \cup (UNION {ToSet(kernels[s]) : s \in Slots} \ Lazy)

\* functor_ of a KernelFunction that was copied out of the list.
Fresh(r) == IF r \in Lazy THEN None ELSE r

\* The calls whose factory is making a functor for this place.
Making(i, s) == {t \in Threads : call[t].stage = "making" /\ call[t].slot = s /\ reading[t] = i}

\* A write copies a KernelFunction to the slot of the background instance.
CopyKernel(s) ==
    /\ functor' = [functor EXCEPT ![bg][s] = Fresh(table'[bg][s])]
    /\ raced' = raced \ {<<bg, s>>}
    /\ UNCHANGED call

\* The failed write restores the background instance: the copies share the
\* functors that calls have made so far, and read them while others assign.
CopyInstance ==
    /\ functor' = [functor EXCEPT ![bg] = functor[fg]]
    /\ raced' = {p \in raced : p[1] = fg}
                   \cup {<<bg, s>> : s \in {z \in Slots : Making(fg, z) # {} \/ <<fg, z>> \in raced}}
    /\ UNCHANGED call

-----------------------------------------------------------------------------
\* Faulty variant: the functor is returned to the call, but not kept.
FirstCallKeepsNothing(t) ==
    /\ call[t].stage = "making"
    /\ \E f \in (1..MaxFunctors) \ (Held \cup {call[u].functor : u \in Threads}) :
          call' = [call EXCEPT ![t].stage = "running", ![t].functor = f]
    /\ UNCHANGED <<vars, functor, raced>>

\* getFunctor_ of a call that found a kernel: the functor that is there, none
\* for a kernel without, or the one that the factory is now asked for.  An
\* unboxed-only kernel refuses a boxed call.
FindFunctor(t, s) ==
    /\ reading[t] # None /\ call[t] = Idle
    /\ table[reading[t]][s] # None
    /\ LET f == functor[reading[t]][s]
           makes == f = None /\ table[reading[t]][s] \in Lazy IN
       /\ call' = [call EXCEPT ![t] =
                     [stage |-> IF makes THEN "making" ELSE "running", slot |-> s, functor |-> f]]
       /\ raced' = IF makes /\ Making(reading[t], s) # {}
                   THEN raced \cup {<<reading[t], s>>} ELSE raced
    /\ UNCHANGED <<vars, functor>>

RefuseBoxed(t, s) ==
    /\ reading[t] # None /\ call[t] = Idle
    /\ table[reading[t]][s] \in UnboxedOnly
    /\ EndRead(t) /\ UNCHANGED <<functor, call, raced>>

\* The factory has returned: the shared pointer is assigned, which gives up
\* the functor that was there, and the call runs with the new one.  Functors
\* are numbered by the lowest number free.
FirstCall(t) ==
    /\ call[t].stage = "making"
    /\ LET free == (1..MaxFunctors) \ (Held \cup {call[u].functor : u \in Threads})
           place == <<reading[t], call[t].slot>> IN
       /\ free # {}
       /\ LET f == CHOOSE n \in free : \A k \in free : n <= k IN
          /\ functor' = [functor EXCEPT ![reading[t]][call[t].slot] = f]
          /\ call' = [call EXCEPT ![t] = [stage |-> "running", slot |-> @.slot, functor |-> f]]
    /\ UNCHANGED <<vars, raced>>

\* The kernel, or the factory, returns or throws.
EndKernelCall(t) ==
    /\ EndRead(t)
    /\ call' = [call EXCEPT ![t] = Idle]
    /\ UNCHANGED <<functor, raced>>

KernelNext ==
    \E t \in Threads :
        \/ \E r \in Regs : \E s \in Slots : RegisterKernel(t, r, s) /\ CopyKernel(s)
        \/ \E r \in Regs : RegisterUndefined(t, r) /\ CopyInstance
        \/ \E r \in Regs : DeregisterKernel(t, r) /\ CopyKernel(where[r])
        \/ FinishWrite(t) /\ CopyKernel(opSlot)
        \/ BeginRead(t) /\ UNCHANGED <<functor, call, raced>>
        \/ \E s \in Slots : FindFunctor(t, s) \/ RefuseBoxed(t, s)
        \/ FirstCall(t)
        \/ EndKernelCall(t)

KernelSpec == KernelInit /\ [][KernelNext]_kernelVars

-----------------------------------------------------------------------------
\* The functor a call runs with is owned by some KernelFunction for as long
\* as the call lasts, whatever is registered, withdrawn and copied meanwhile
\* (getFunctor_ hands out a raw pointer) - except where two first calls met,
\* one of which destroys the functor of the other.
FunctorOutlivesCall ==
    \A t \in Threads :
        call[t].stage = "running" /\ <<reading[t], call[t].slot>> \notin raced =>
            call[t].functor \in Held \cup {None}
=============================================================================
