---------------------------- MODULE OperatorEntry ----------------------------
(***************************************************************************)
(* c10::impl::OperatorEntry: the kernels registered for one operator       *)
(* (kernels_ and catchAllKernels_, lists with the newest registration in   *)
(* front, under kernelsMutex_) and the dispatch table that calls read      *)
(* without a lock.  dispatchTable_ is a c10::LeftRight: two instances, of  *)
(* which readers use the foreground one; a write changes the background    *)
(* instance, makes it the foreground, waits until nobody reads the other   *)
(* one and repeats the change there.  LeftRight lives in c10, outside this *)
(* repository, and is modelled by that contract.                           *)
(***************************************************************************)
EXTENDS Naturals, Sequences, SequencesExt

CONSTANTS Threads,       \* threads that register, deregister and call
          Keys,          \* TensorTypeId values used as dispatch keys
          UndefinedKey,  \* TensorTypeId::UndefinedTensorId
          CatchAll,      \* the slot of the catch-all kernels
          Regs,          \* KernelFunction registrations
          None           \* no kernel, no thread, no instance

Slots == Keys \cup {CatchAll}
Insts == {0, 1}

ASSUME SlotsAssumption == UndefinedKey \in Keys /\ CatchAll \notin Keys
ASSUME NoneAssumption == None \notin Regs \cup Threads \cup Slots \cup Insts
ASSUME NotATableAssumption == None \notin [Slots \ {UndefinedKey} -> Regs \cup {None}]

VARIABLES
    kernels,       \* kernels_ and catchAllKernels_, newest first
    table,         \* the two instances of dispatchTable_
    fg,            \* the instance new readers get
    writer,        \* the holder of kernelsMutex_, waiting inside LeftRight::write
    opSlot, opReg, \* what the writer is writing, and for which registration
    reading,       \* the instance each thread's call is reading
    status,        \* the life of a registration and its RAII handle
    where          \* the slot captured by the handle's destruction callback

vars == <<kernels, table, fg, writer, opSlot, opReg, reading, status, where>>

bg == 1 - fg

Newest(list) == IF list = <<>> THEN None ELSE Head(list)

Init ==
    /\ kernels = [s \in Slots |-> <<>>]
    /\ table = [i \in Insts |-> [s \in Slots |-> None]]
    /\ fg = 0
    /\ writer = None /\ opSlot = None /\ opReg = None
    /\ reading = [t \in Threads |-> None]
    /\ status = [r \in Regs |-> "free"]
    /\ where = [r \in Regs |-> None]

-----------------------------------------------------------------------------
\* The first half of dispatchTable_.write: the background instance takes the
\* front of the list (no entry when the list is gone) and becomes foreground.
\* The writer keeps kernelsMutex_ until it has waited the readers out.
UpdateDispatchTable(t, r, s) ==
    /\ table' = [table EXCEPT ![bg][s] = Newest(kernels'[s])]
    /\ fg' = bg
    /\ writer' = t /\ opSlot' = s /\ opReg' = r
    /\ UNCHANGED reading

\* A thread that is not inside a call takes the free mutex.
CanLock(t) == writer = None /\ reading[t] = None

\* Faulty variant: the kernel joins its list at the back.
RegisterAtBack(t, r, s) ==
    /\ CanLock(t) /\ status[r] = "free" /\ s # UndefinedKey
    /\ kernels' = [kernels EXCEPT ![s] = Append(@, r)]
    /\ status' = [status EXCEPT ![r] = "pending"]
    /\ where' = [where EXCEPT ![r] = s]
    /\ UpdateDispatchTable(t, r, s)

RegisterKernel(t, r, s) ==
    /\ CanLock(t) /\ status[r] = "free" /\ s # UndefinedKey
    /\ kernels' = [kernels EXCEPT ![s] = Cons(r, @)]
    /\ status' = [status EXCEPT ![r] = "pending"]
    /\ where' = [where EXCEPT ![r] = s]
    /\ UpdateDispatchTable(t, r, s)

\* DispatchTable::setKernel refuses the undefined key after the kernel was
\* pushed to its list.  LeftRight restores the background instance from the
\* foreground one and rethrows; no handle exists, the list element remains.
RegisterUndefined(t, r) ==
    /\ CanLock(t) /\ status[r] = "free"
    /\ kernels' = [kernels EXCEPT ![UndefinedKey] = Cons(r, @)]
    /\ status' = [status EXCEPT ![r] = "orphan"]
    /\ where' = [where EXCEPT ![r] = UndefinedKey]
    /\ table' = [table EXCEPT ![bg] = table[fg]]
    /\ UNCHANGED <<fg, writer, opSlot, opReg, reading>>

\* Faulty variant: deregistration pops the front of the list, whichever
\* registration the handle is for.
DeregisterFront(t, r) ==
    /\ CanLock(t) /\ status[r] = "held" /\ kernels[where[r]] # <<>>
    /\ kernels' = [kernels EXCEPT ![where[r]] = Tail(@)]
    /\ status' = [status EXCEPT ![r] = "closing"]
    /\ UNCHANGED where
    /\ UpdateDispatchTable(t, r, where[r])

\* The handle is destroyed, by whatever thread holds it: the iterator it kept
\* is erased and the table follows.
DeregisterKernel(t, r) ==
    /\ CanLock(t) /\ status[r] = "held"
    /\ \E i \in 1..Len(kernels[where[r]]) :
          /\ kernels[where[r]][i] = r
          /\ kernels' = [kernels EXCEPT ![where[r]] = RemoveAt(@, i)]
    /\ status' = [status EXCEPT ![r] = "closing"]
    /\ UNCHANGED where
    /\ UpdateDispatchTable(t, r, where[r])

\* Faulty variants: the write returns without waiting for the readers of the
\* old instance, or without repeating the change there.
FinishWithoutWaiting(t) ==
    /\ writer = t
    /\ table' = [table EXCEPT ![bg][opSlot] = Newest(kernels[opSlot])]
    /\ writer' = None /\ opSlot' = None /\ opReg' = None
    /\ status' = [status EXCEPT ![opReg] = IF @ = "pending" THEN "held" ELSE "free"]
    /\ where' = [where EXCEPT ![opReg] = IF status[opReg] = "pending" THEN @ ELSE None]
    /\ UNCHANGED <<kernels, fg, reading>>

FinishOneSided(t) ==
    /\ writer = t
    /\ \A u \in Threads : reading[u] # bg
    /\ writer' = None /\ opSlot' = None /\ opReg' = None
    /\ status' = [status EXCEPT ![opReg] = IF @ = "pending" THEN "held" ELSE "free"]
    /\ where' = [where EXCEPT ![opReg] = IF status[opReg] = "pending" THEN @ ELSE None]
    /\ UNCHANGED <<kernels, table, fg, reading>>

\* The second half of dispatchTable_.write: no reader is left in the old
\* instance, it gets the same change, the mutex is released and the call
\* returns, with a handle or with the registration gone.
FinishWrite(t) ==
    /\ writer = t
    /\ \A u \in Threads : reading[u] # bg
    /\ table' = [table EXCEPT ![bg][opSlot] = Newest(kernels[opSlot])]
    /\ writer' = None /\ opSlot' = None /\ opReg' = None
    /\ status' = [status EXCEPT ![opReg] = IF @ = "pending" THEN "held" ELSE "free"]
    /\ where' = [where EXCEPT ![opReg] = IF status[opReg] = "pending" THEN @ ELSE None]
    /\ UNCHANGED <<kernels, fg, reading>>

\* Faulty variant: a reader enters the instance the writer waits for.
BeginReadOld(t) ==
    /\ writer # t /\ reading[t] = None
    /\ reading' = [reading EXCEPT ![t] = bg]
    /\ UNCHANGED <<kernels, table, fg, writer, opSlot, opReg, status, where>>

\* readDispatchTable: a call holds one instance from its lookup until its
\* kernel has returned.
BeginRead(t) ==
    /\ writer # t /\ reading[t] = None
    /\ reading' = [reading EXCEPT ![t] = fg]
    /\ UNCHANGED <<kernels, table, fg, writer, opSlot, opReg, status, where>>

EndRead(t) ==
    /\ reading[t] # None
    /\ reading' = [reading EXCEPT ![t] = None]
    /\ UNCHANGED <<kernels, table, fg, writer, opSlot, opReg, status, where>>

Next ==
    \E t \in Threads :
        \/ \E r \in Regs : \E s \in Slots : RegisterKernel(t, r, s)
        \/ \E r \in Regs : RegisterUndefined(t, r)
        \/ \E r \in Regs : DeregisterKernel(t, r)
        \/ FinishWrite(t)
        \/ BeginRead(t)
        \/ EndRead(t)

Spec == Init /\ [][Next]_vars

-----------------------------------------------------------------------------
\* Every variable has its type.
TypeOK ==
    /\ kernels \in [Slots -> Seq(Regs)]
    /\ table \in [Insts -> [Slots -> Regs \cup {None}]]
    /\ fg \in Insts
    /\ writer \in Threads \cup {None}
    /\ opSlot \in Slots \cup {None}
    /\ opReg \in Regs \cup {None}
    /\ reading \in [Threads -> Insts \cup {None}]
    /\ status \in [Regs -> {"free", "pending", "held", "closing", "orphan"}]
    /\ where \in [Regs -> Slots \cup {None}]

\* The invariant documented beside kernels_ (OperatorEntry.h:66), as far as
\* the code keeps it: outside a write both instances of the dispatch table
\* agree with the front of every list, whose key is not the undefined one.
TableMatchesKernels ==
    writer = None =>
        \A i \in Insts : \A s \in Slots \ {UndefinedKey} :
            table[i][s] = Newest(kernels[s])

\* Once the destructor of a registration's handle has returned and its
\* library may be unloaded, no call in flight can reach that kernel: every
\* kernel in an instance some call still reads is registered, or its
\* (de)registration has not returned yet.
UnloadSafe ==
    \A t \in Threads : \A s \in Slots :
        reading[t] # None /\ table[reading[t]][s] # None =>
            status[table[reading[t]][s]] \in {"pending", "held", "closing"}

\* "list iterators stay valid even if the list changes" (OperatorEntry.cpp:51):
\* while a handle exists its registration is in the list it was put in, once.
HandleResolves ==
    \A r \in Regs :
        status[r] = "held" =>
            r \in ToSet(kernels[where[r]]) /\ IsInjective(kernels[where[r]])

\* Registrations that come and go in any order leave the lists as their
\* handles need them and the table as the lists demand it.
KernelsInForce == TableMatchesKernels /\ HandleResolves

-----------------------------------------------------------------------------
\* The inductive strengthening of the safety properties above.

\* The writer's work in progress: its registration is the only one between
\* two states, and belongs to the slot being written.
WriterInv ==
    /\ writer = None => opSlot = None /\ opReg = None
    /\ writer # None =>
          /\ opReg \in Regs /\ opSlot \in Slots \ {UndefinedKey}
          /\ where[opReg] = opSlot
          /\ status[opReg] \in {"pending", "closing"}
    /\ \A r \in Regs : status[r] \in {"pending", "closing"} => r = opReg

\* Lists hold exactly the registrations that were made and not withdrawn,
\* each once, in the slot its handle remembers.
ListInv ==
    /\ \A s \in Slots :
          /\ IsInjective(kernels[s])
          /\ \A r \in ToSet(kernels[s]) :
                /\ where[r] = s
                /\ status[r] \in IF s = UndefinedKey THEN {"orphan"} ELSE {"pending", "held"}
    /\ \A r \in Regs :
          status[r] \in {"pending", "held"} =>
             where[r] \in Slots \ {UndefinedKey} /\ r \in ToSet(kernels[where[r]])

\* The foreground instance is up to date; the other one lags in the slot
\* being written at most, and what it still shows there is not yet released.
TableInv ==
    /\ \A s \in Slots \ {UndefinedKey} : table[fg][s] = Newest(kernels[s])
    /\ \A i \in Insts : table[i][UndefinedKey] = None
    /\ \A s \in Slots : s # opSlot => table[bg][s] = table[fg][s]
    /\ \A s \in Slots : table[bg][s] # None =>
          status[table[bg][s]] \in {"pending", "held", "closing"}

\* The background instance has readers only while a writer waits for them.
ReaderInv == \A t \in Threads : reading[t] = bg => writer # None

IInv == TypeOK /\ WriterInv /\ ListInv /\ TableInv /\ ReaderInv

-----------------------------------------------------------------------------
\* OperatorEntry implements the registry: what a call sees is the content of
\* the instance it reads, a registration is live until its deregistration
\* has returned, and the undefined key is no slot.
Registry == INSTANCE KernelRegistry WITH
    Slots  <- Slots \ {UndefinedKey},
    stacks <- [s \in Slots \ {UndefinedKey} |-> kernels[s]],
    live   <- {r \in Regs : status[r] \in {"pending", "held", "closing"}},
    snap   <- [t \in Threads |->
                 IF reading[t] = None THEN None
                 ELSE [s \in Slots \ {UndefinedKey} |-> table[reading[t]][s]]]

\* Calls see consistent snapshots, the newest registration wins, and code is
\* released only when unreachable.
ImplementsRegistry == Registry!AbsSpec
=============================================================================
