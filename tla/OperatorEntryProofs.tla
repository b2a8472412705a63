------------------------- MODULE OperatorEntryProofs -------------------------
(***************************************************************************)
(* For any threads, keys and registrations: calls see the kernels in       *)
(* force, a library gets its registration back when no call can reach its  *)
(* code, OperatorEntry implements KernelRegistry, and the functor of a     *)
(* kernel outlives the calls that run with it.                             *)
(*                                                                         *)
(* Then the same for calls that may fall back: with registrations of both  *)
(* kinds, the kernel that a call runs stays the one dispatch_ picked, and  *)
(* stays registered.                                                       *)
(***************************************************************************)
EXTENDS KernelFunctions, DispatcherCalls, SequenceLemmas, SequenceTheorems, TLAPS

LEMMA ElementsInS ==
    ASSUME NEW S, NEW q \in Seq(S)
    PROVE  /\ ToSet(q) \subseteq S
           /\ q # <<>> => Newest(q) \in ToSet(q)
  BY LenProperties, EmptySeq DEF ToSet, Newest

LEMMA InstFacts ==
    ASSUME fg \in Insts
    PROVE  bg \in Insts /\ bg # fg /\ 1 - bg = fg /\ Insts = {fg, bg}
  BY DEF Insts, bg

-----------------------------------------------------------------------------
\* The invariant is inductive: one lemma per action that changes the lists or
\* the table, then the theorem.

LEMMA InitIInv == Init => IInv
<1> SUFFICES ASSUME Init PROVE IInv
  OBVIOUS
<1> USE NoneAssumption, SlotsAssumption DEF Init
<1>1. TypeOK
  BY EmptySeq DEF TypeOK, Insts
<1>2. WriterInv /\ ReaderInv
  BY DEF WriterInv, ReaderInv, bg, Insts
<1>3. \A s \in Slots :
         kernels[s] = <<>> /\ ToSet(kernels[s]) = {} /\ IsInjective(kernels[s])
  BY DEF ToSet, IsInjective
<1>4. ListInv
  BY <1>3 DEF ListInv
<1>5. TableInv
  BY <1>3 DEF TableInv, Newest, bg, Insts, Slots
<1> QED
  BY <1>1, <1>2, <1>4, <1>5 DEF IInv

LEMMA RegisterPreserves ==
    ASSUME IInv, NEW t \in Threads, NEW r \in Regs, NEW s \in Slots,
           RegisterKernel(t, r, s)
    PROVE  IInv'
<1> USE NoneAssumption, SlotsAssumption
<1> DEFINE new == Cons(r, kernels[s])
<1>1. /\ writer = None /\ opSlot = None /\ opReg = None /\ status[r] = "free"
      /\ s # UndefinedKey /\ s \in Slots \ {UndefinedKey}
      /\ kernels' = [kernels EXCEPT ![s] = new]
      /\ status' = [status EXCEPT ![r] = "pending"]
      /\ where' = [where EXCEPT ![r] = s]
      /\ reading' = reading /\ fg' = bg
      /\ writer' = t /\ opSlot' = s /\ opReg' = r
      /\ table' = [table EXCEPT ![bg] = [table[bg] EXCEPT ![s] = Newest(kernels'[s])]]
  BY DEF RegisterKernel, CanLock, UpdateDispatchTable, IInv, WriterInv
<1>2. fg \in Insts /\ bg \in Insts /\ bg # fg /\ bg' = fg /\ Insts = {fg, bg}
  BY <1>1, InstFacts DEF IInv, TypeOK, bg
<1>3. r \notin ToSet(kernels[s])
  BY <1>1 DEF IInv, ListInv
<1>4. /\ new \in Seq(Regs) /\ Newest(new) = r /\ IsInjective(new)
      /\ ToSet(new) = ToSet(kernels[s]) \cup {r}
      /\ kernels'[s] = new /\ \A u \in Slots : u # s => kernels'[u] = kernels[u]
  BY <1>1, <1>3, ConsElements DEF IInv, TypeOK, ListInv, Newest
<1> HIDE DEF new
<1>5. TypeOK'
  BY <1>1, <1>2, <1>4 DEF IInv, TypeOK
<1>6. WriterInv'
  BY <1>1 DEF IInv, WriterInv, TypeOK
<1>7. \A u \in Slots : ToSet(kernels[u]) \subseteq Regs \ {r}
  BY <1>1, ElementsInS DEF IInv, TypeOK, ListInv
<1>8. ListInv'
  <2>1. ASSUME NEW u \in Slots
        PROVE  /\ IsInjective(kernels'[u])
               /\ \A q \in ToSet(kernels'[u]) :
                     /\ where'[q] = u
                     /\ status'[q] \in
                           IF u = UndefinedKey THEN {"orphan"} ELSE {"pending", "held"}
    BY <1>1, <1>4, <1>7 DEF IInv, TypeOK, ListInv
  <2>2. ASSUME NEW q \in Regs, status'[q] \in {"pending", "held"}
        PROVE  where'[q] \in Slots \ {UndefinedKey} /\ q \in ToSet(kernels'[where'[q]])
    BY <2>2, <1>1, <1>4 DEF IInv, TypeOK, ListInv
  <2> QED
    BY <2>1, <2>2 DEF ListInv
<1>9. TableInv'
  <2>1. /\ table'[fg'][s] = r
        /\ \A u \in Slots : u # s => table'[fg'][u] = table[bg][u]
        /\ table'[bg'] = table[fg]
    BY <1>1, <1>2, <1>4 DEF IInv, TypeOK
  <2>2. \A u \in Slots : table[bg][u] = table[fg][u]
    BY <1>1 DEF IInv, TableInv
  <2>3. \A u \in Slots : table[fg][u] # None =>
           table[fg][u] \in Regs \ {r} /\ status[table[fg][u]] \in {"pending", "held", "closing"}
    BY <1>1, <1>2, <2>2 DEF IInv, TypeOK, TableInv
  <2>4. \A u \in Slots \ {UndefinedKey} : table'[fg'][u] = Newest(kernels'[u])
    BY <2>1, <2>2, <1>4 DEF IInv, TableInv
  <2>5. \A i \in Insts : table'[i][UndefinedKey] = None
    BY <2>1, <1>1, <1>2 DEF IInv, TableInv, Slots
  <2>6. \A u \in Slots : u # opSlot' => table'[bg'][u] = table'[fg'][u]
    BY <2>1, <2>2, <1>1
  <2>7. \A u \in Slots : table'[bg'][u] # None =>
           status'[table'[bg'][u]] \in {"pending", "held", "closing"}
    BY <2>1, <2>3, <1>1 DEF IInv, TypeOK
  <2> QED
    BY <2>4, <2>5, <2>6, <2>7 DEF TableInv
<1>10. ReaderInv'
  BY <1>1 DEF ReaderInv
<1> QED
  BY <1>5, <1>6, <1>8, <1>9, <1>10 DEF IInv

LEMMA RegisterUndefinedPreserves ==
    ASSUME IInv, NEW t \in Threads, NEW r \in Regs, RegisterUndefined(t, r)
    PROVE  IInv'
<1> USE NoneAssumption, SlotsAssumption
<1> DEFINE new == Cons(r, kernels[UndefinedKey])
<1>1. /\ writer = None /\ opSlot = None /\ opReg = None /\ status[r] = "free"
      /\ kernels' = [kernels EXCEPT ![UndefinedKey] = new]
      /\ status' = [status EXCEPT ![r] = "orphan"]
      /\ where' = [where EXCEPT ![r] = UndefinedKey]
      /\ table' = [table EXCEPT ![bg] = table[fg]]
      /\ UNCHANGED <<fg, writer, opSlot, opReg, reading>>
  BY DEF RegisterUndefined, CanLock, IInv, WriterInv
<1>2. UndefinedKey \in Slots /\ fg \in Insts /\ bg \in Insts /\ bg' = bg
  BY <1>1, InstFacts DEF IInv, TypeOK, bg, Slots
<1>3. r \notin ToSet(kernels[UndefinedKey])
  BY <1>1, <1>2 DEF IInv, ListInv
<1>4. /\ new \in Seq(Regs) /\ IsInjective(new)
      /\ ToSet(new) = ToSet(kernels[UndefinedKey]) \cup {r}
      /\ kernels'[UndefinedKey] = new
      /\ \A u \in Slots : u # UndefinedKey => kernels'[u] = kernels[u]
  BY <1>1, <1>2, <1>3, ConsElements DEF IInv, TypeOK, ListInv, Newest
<1> HIDE DEF new
<1>5. TypeOK'
  BY <1>1, <1>2, <1>4 DEF IInv, TypeOK
<1>6. table' = table
  <2>1. table \in [Insts -> [Slots -> Regs \cup {None}]]
    BY DEF IInv, TypeOK
  <2>2. \A u \in Slots : table[bg][u] = table[fg][u]
    BY <1>1 DEF IInv, TableInv
  <2>3. table[bg] = table[fg]
    BY <2>1, <2>2, <1>2
  <2> QED
    BY <2>1, <2>3, <1>1
<1>7. \A u \in Slots : ToSet(kernels[u]) \subseteq Regs \ {r}
  BY <1>1, ElementsInS DEF IInv, TypeOK, ListInv
<1>8. ListInv'
  BY <1>1, <1>2, <1>4, <1>7 DEF IInv, TypeOK, ListInv
<1>9. TableInv'
  BY <1>1, <1>2, <1>4, <1>6 DEF IInv, TypeOK, TableInv
<1>10. WriterInv' /\ ReaderInv'
  BY <1>1, <1>2 DEF IInv, TypeOK, WriterInv, ReaderInv
<1> QED
  BY <1>5, <1>8, <1>9, <1>10 DEF IInv

LEMMA DeregisterPreserves ==
    ASSUME IInv, NEW t \in Threads, NEW r \in Regs, DeregisterKernel(t, r)
    PROVE  IInv'
<1> USE NoneAssumption, SlotsAssumption
<1> DEFINE s == where[r]
<1>1. PICK i \in 1..Len(kernels[s]) :
         kernels[s][i] = r /\ kernels' = [kernels EXCEPT ![s] = RemoveAt(@, i)]
  BY DEF DeregisterKernel
<1> DEFINE new == RemoveAt(kernels[s], i)
<1>2. /\ writer = None /\ opSlot = None /\ opReg = None /\ status[r] = "held"
      /\ s \in Slots \ {UndefinedKey}
      /\ kernels' = [kernels EXCEPT ![s] = new]
      /\ status' = [status EXCEPT ![r] = "closing"]
      /\ where' = where /\ reading' = reading /\ fg' = bg
      /\ writer' = t /\ opSlot' = s /\ opReg' = r
      /\ table' = [table EXCEPT ![bg] = [table[bg] EXCEPT ![s] = Newest(kernels'[s])]]
  BY <1>1 DEF DeregisterKernel, CanLock, UpdateDispatchTable, IInv, WriterInv, ListInv
<1>3. fg \in Insts /\ bg \in Insts /\ bg # fg /\ bg' = fg /\ Insts = {fg, bg}
  BY <1>2, InstFacts DEF IInv, TypeOK, bg
<1>4. /\ new \in Seq(Regs) /\ IsInjective(new)
      /\ ToSet(new) = ToSet(kernels[s]) \ {r}
      /\ kernels'[s] = new /\ \A u \in Slots : u # s => kernels'[u] = kernels[u]
  BY <1>1, <1>2, RemoveAtElements DEF IInv, TypeOK, ListInv
<1> HIDE DEF new
<1>5. Newest(new) \in Regs \cup {None}
  BY <1>4, ElementsInS DEF Newest
<1>6. TypeOK'
  BY <1>2, <1>3, <1>4, <1>5 DEF IInv, TypeOK
<1>7. WriterInv'
  BY <1>2 DEF IInv, WriterInv, TypeOK
<1>8. ListInv'
  <2>1. \A u \in Slots : ToSet(kernels[u]) \subseteq Regs
    BY ElementsInS DEF IInv, TypeOK
  <2>2. \A u \in Slots : u # s => r \notin ToSet(kernels[u])
    BY DEF IInv, ListInv
  <2> QED
    BY <2>1, <2>2, <1>2, <1>4 DEF IInv, TypeOK, ListInv
<1>9. TableInv'
  <2>1. /\ table'[fg'][s] = Newest(kernels'[s])
        /\ \A u \in Slots : u # s => table'[fg'][u] = table[bg][u]
        /\ table'[bg'] = table[fg]
    BY <1>2, <1>3, <1>4 DEF IInv, TypeOK
  <2>2. \A u \in Slots : table[bg][u] = table[fg][u]
    BY <1>2 DEF IInv, TableInv
  <2>3. \A u \in Slots : table[fg][u] # None =>
           table[fg][u] \in Regs /\ status[table[fg][u]] \in {"pending", "held", "closing"}
    BY <1>2, <1>3, <2>2 DEF IInv, TypeOK, TableInv
  <2>4. \A u \in Slots \ {UndefinedKey} : table'[fg'][u] = Newest(kernels'[u])
    BY <2>1, <2>2, <1>4 DEF IInv, TableInv
  <2>5. \A k \in Insts : table'[k][UndefinedKey] = None
    BY <2>1, <1>2, <1>3 DEF IInv, TableInv, Slots
  <2>6. \A u \in Slots : u # opSlot' => table'[bg'][u] = table'[fg'][u]
    BY <2>1, <2>2, <1>2
  <2>7. \A u \in Slots : table'[bg'][u] # None =>
           status'[table'[bg'][u]] \in {"pending", "held", "closing"}
    BY <2>1, <2>3, <1>2 DEF IInv, TypeOK
  <2> QED
    BY <2>4, <2>5, <2>6, <2>7 DEF TableInv
<1>10. ReaderInv'
  BY <1>2 DEF ReaderInv
<1> QED
  BY <1>6, <1>7, <1>8, <1>9, <1>10 DEF IInv

\* Every kernel in the foreground instance is in its list.
LEMMA ForegroundListed ==
    ASSUME IInv
    PROVE  \A s \in Slots \ {UndefinedKey} :
              table[fg][s] # None => table[fg][s] \in ToSet(kernels[s])
<1> SUFFICES ASSUME NEW s \in Slots \ {UndefinedKey}, table[fg][s] # None
             PROVE  table[fg][s] \in ToSet(kernels[s])
  OBVIOUS
<1>1. table[fg][s] = Newest(kernels[s]) /\ kernels[s] \in Seq(Regs)
  BY DEF IInv, TypeOK, TableInv
<1>2. kernels[s] # <<>>
  BY <1>1 DEF Newest
<1> QED
  BY <1>1, <1>2, ElementsInS

LEMMA FinishPreserves ==
    ASSUME IInv, NEW t \in Threads, FinishWrite(t)
    PROVE  IInv'
<1> USE NoneAssumption, SlotsAssumption
<1>1. /\ writer = t /\ opReg \in Regs /\ opSlot \in Slots \ {UndefinedKey}
      /\ where[opReg] = opSlot /\ status[opReg] \in {"pending", "closing"}
      /\ \A u \in Threads : reading[u] # bg
      /\ table' = [table EXCEPT ![bg] = [table[bg] EXCEPT ![opSlot] = Newest(kernels[opSlot])]]
      /\ writer' = None /\ opSlot' = None /\ opReg' = None
      /\ status' = [status EXCEPT ![opReg] =
                       IF status[opReg] = "pending" THEN "held" ELSE "free"]
      /\ where' = [where EXCEPT ![opReg] =
                      IF status[opReg] = "pending" THEN where[opReg] ELSE None]
      /\ kernels' = kernels /\ fg' = fg /\ reading' = reading
  BY DEF FinishWrite, IInv, WriterInv
<1>2. fg \in Insts /\ bg \in Insts /\ bg # fg /\ bg' = bg /\ Insts = {fg, bg}
  BY <1>1, InstFacts DEF IInv, TypeOK, bg
<1>3. table'[fg] = table[fg] /\ \A u \in Slots : table'[bg][u] = table[fg][u]
  BY <1>1, <1>2 DEF IInv, TypeOK, TableInv
<1>4. \A u \in Slots \ {UndefinedKey} : table[fg][u] # None =>
         table[fg][u] \in ToSet(kernels[u])
  BY ForegroundListed
<1>5. \A u \in Slots : ToSet(kernels[u]) \subseteq Regs
  BY ElementsInS DEF IInv, TypeOK
<1>6. TypeOK'
  BY <1>1, <1>2, <1>3 DEF IInv, TypeOK
<1>7. WriterInv'
  BY <1>1 DEF IInv, WriterInv, TypeOK
<1>8. ListInv'
  BY <1>1, <1>5 DEF IInv, TypeOK, ListInv
<1>9. TableInv'
  <2>1. \A u \in Slots \ {UndefinedKey} : table'[fg'][u] = Newest(kernels'[u])
    BY <1>1, <1>3 DEF IInv, TableInv
  <2>2. \A i \in Insts : table'[i][UndefinedKey] = None
    BY <1>2, <1>3 DEF IInv, TableInv, Slots
  <2>3. \A u \in Slots : table'[bg'][u] = table'[fg'][u]
    BY <1>1, <1>2, <1>3
  <2>4. ASSUME NEW u \in Slots, table'[bg'][u] # None
        PROVE  status'[table'[bg'][u]] \in {"pending", "held", "closing"}
    <3>1. table'[bg'][u] = table[fg][u] /\ u # UndefinedKey
      BY <2>4, <2>2, <1>2, <1>3
    <3>2. table[fg][u] \in ToSet(kernels[u]) /\ table[fg][u] \in Regs
      BY <2>4, <3>1, <1>4, <1>5
    <3>3. status[table[fg][u]] \in {"pending", "held"}
      BY <3>1, <3>2 DEF IInv, ListInv
    <3> QED
      BY <3>1, <3>2, <3>3, <1>1 DEF IInv, TypeOK
  <2> QED
    BY <2>1, <2>2, <2>3, <2>4 DEF TableInv
<1>10. ReaderInv'
  BY <1>1, <1>2 DEF ReaderInv
<1> QED
  BY <1>6, <1>7, <1>8, <1>9, <1>10 DEF IInv

LEMMA ReadPreserves ==
    ASSUME IInv, NEW t \in Threads, BeginRead(t) \/ EndRead(t)
    PROVE  IInv'
<1> USE NoneAssumption
<1>1. /\ UNCHANGED <<kernels, table, fg, writer, opSlot, opReg, status, where>>
      /\ \E i \in {fg, None} : reading' = [reading EXCEPT ![t] = i]
  BY DEF BeginRead, EndRead
<1>2. bg' = bg /\ fg \in Insts /\ bg # fg /\ bg \in Insts
  BY <1>1, InstFacts DEF IInv, TypeOK, bg
<1>3. TypeOK' /\ ReaderInv'
  BY <1>1, <1>2 DEF IInv, TypeOK, ReaderInv
<1>4. WriterInv' /\ ListInv'
  BY <1>1 DEF IInv, WriterInv, ListInv
<1>5. TableInv'
  BY <1>1, <1>2 DEF IInv, TableInv
<1> QED
  BY <1>3, <1>4, <1>5 DEF IInv

LEMMA NextIInv == IInv /\ [Next]_vars => IInv'
<1> SUFFICES ASSUME IInv, [Next]_vars PROVE IInv'
  OBVIOUS
<1>1. CASE UNCHANGED vars
  BY <1>1 DEF vars, IInv, TypeOK, WriterInv, ListInv, TableInv, ReaderInv, bg
<1>2. ASSUME NEW t \in Threads, NEW r \in Regs, NEW s \in Slots, RegisterKernel(t, r, s)
      PROVE  IInv'
  BY <1>2, RegisterPreserves
<1>3. ASSUME NEW t \in Threads, NEW r \in Regs, RegisterUndefined(t, r)
      PROVE  IInv'
  BY <1>3, RegisterUndefinedPreserves
<1>4. ASSUME NEW t \in Threads, NEW r \in Regs, DeregisterKernel(t, r)
      PROVE  IInv'
  BY <1>4, DeregisterPreserves
<1>5. ASSUME NEW t \in Threads, FinishWrite(t)
      PROVE  IInv'
  BY <1>5, FinishPreserves
<1>6. ASSUME NEW t \in Threads, BeginRead(t) \/ EndRead(t)
      PROVE  IInv'
  BY <1>6, ReadPreserves
<1> QED
  BY <1>1, <1>2, <1>3, <1>4, <1>5, <1>6 DEF Next

\* The inductive strengthening always holds.
THEOREM Invariance == Spec => []IInv
  BY InitIInv, NextIInv, PTL DEF Spec

\* The variables keep their types.
THEOREM TypeCorrect == Spec => []TypeOK
<1>1. IInv => TypeOK
  BY DEF IInv
<1> QED
  BY <1>1, Invariance, PTL

\* The documented invariant of the dispatch table, outside a write and for
\* every key but the undefined one (OperatorEntry.h:66-72).
THEOREM TableMatches == Spec => []TableMatchesKernels
<1>1. IInv => TableMatchesKernels
  <2> SUFFICES ASSUME IInv, writer = None,
                      NEW i \in Insts, NEW s \in Slots \ {UndefinedKey}
               PROVE  table[i][s] = Newest(kernels[s])
    BY DEF TableMatchesKernels
  <2>1. Insts = {fg, bg}
    BY InstFacts DEF IInv, TypeOK
  <2>2. s # opSlot
    BY NoneAssumption DEF IInv, WriterInv
  <2> QED
    BY <2>1, <2>2 DEF IInv, TableInv
<1> QED
  BY <1>1, Invariance, PTL

\* No call can reach the kernel of a registration that was handed back.
THEOREM UnloadSafety == Spec => []UnloadSafe
<1>1. IInv => UnloadSafe
  <2> SUFFICES ASSUME IInv, NEW t \in Threads, NEW s \in Slots,
                      reading[t] # None, table[reading[t]][s] # None
               PROVE  status[table[reading[t]][s]] \in {"pending", "held", "closing"}
    BY DEF UnloadSafe
  <2>1. reading[t] \in {fg, bg} /\ fg \in Insts /\ bg \in Insts
    BY InstFacts DEF IInv, TypeOK
  <2>2. CASE reading[t] = bg
    BY <2>2 DEF IInv, TableInv
  <2>3. CASE reading[t] = fg
    <3>1. s # UndefinedKey
      BY <2>1, <2>3 DEF IInv, TableInv
    <3>2. table[fg][s] \in ToSet(kernels[s])
      BY <2>3, <3>1, ForegroundListed
    <3> QED
      BY <2>3, <3>1, <3>2 DEF IInv, ListInv
  <2> QED
    BY <2>1, <2>2, <2>3
<1> QED
  BY <1>1, Invariance, PTL

\* A handle finds its registration in its list, once.
THEOREM HandlesResolve == Spec => []HandleResolves
<1>1. IInv => HandleResolves
  BY DEF IInv, ListInv, HandleResolves
<1> QED
  BY <1>1, Invariance, PTL

\* The lists resolve every handle and the table follows the lists, whatever
\* registrations come and go (OperatorEntry.cpp:38-126).
THEOREM KernelsStayInForce == Spec => []KernelsInForce
<1>1. TableMatchesKernels /\ HandleResolves => KernelsInForce
  BY DEF KernelsInForce
<1> QED
  BY <1>1, TableMatches, HandlesResolve, PTL

-----------------------------------------------------------------------------
\* Refinement: every step of OperatorEntry is a step of KernelRegistry or
\* leaves its variables alone.

RegSlots == Slots \ {UndefinedKey}
Stacks == [s \in RegSlots |-> kernels[s]]
Live == {r \in Regs : status[r] \in {"pending", "held", "closing"}}
Snap == [t \in Threads |->
           IF reading[t] = None THEN None ELSE [s \in RegSlots |-> table[reading[t]][s]]]

LEMMA Stutter ==
    ASSUME Stacks' = Stacks, Live' = Live, Snap' = Snap
    PROVE  UNCHANGED Registry!absVars
  BY DEF Registry!absVars, Stacks, Live, Snap, RegSlots

\* What a reader sees does not change while it reads.
LEMMA SnapStable ==
    ASSUME IInv, reading' = reading, NEW i \in Insts,
           \A t \in Threads : reading[t] # i,
           \A j \in Insts : j # i => table'[j] = table[j]
    PROVE  Snap' = Snap
<1>1. \A t \in Threads : reading[t] # None => reading[t] \in Insts /\ reading[t] # i
  BY DEF IInv, TypeOK
<1>2. \A t \in Threads : reading[t] # None => table'[reading[t]] = table[reading[t]]
  BY <1>1
<1> QED
  BY <1>2 DEF Snap

LEMMA RegisterRefines ==
    ASSUME IInv, NEW t \in Threads, NEW r \in Regs, NEW s \in Slots,
           RegisterKernel(t, r, s)
    PROVE  s \in RegSlots /\ Registry!Register(r, s)
<1> USE NoneAssumption, SlotsAssumption
<1>1. /\ writer = None /\ status[r] = "free" /\ s \in RegSlots
      /\ kernels' = [kernels EXCEPT ![s] = Cons(r, kernels[s])]
      /\ status' = [status EXCEPT ![r] = "pending"]
      /\ reading' = reading
      /\ table' = [table EXCEPT ![bg] = [table[bg] EXCEPT ![s] = Newest(kernels'[s])]]
  BY DEF RegisterKernel, CanLock, UpdateDispatchTable, RegSlots
<1>2. bg \in Insts /\ \A u \in Threads : reading[u] # bg
  BY <1>1, InstFacts DEF IInv, TypeOK, ReaderInv
<1>3. Snap' = Snap
  BY <1>1, <1>2, SnapStable DEF IInv, TypeOK
<1>4. Stacks' = [Stacks EXCEPT ![s] = Cons(r, Stacks[s])]
  BY <1>1 DEF IInv, TypeOK, Stacks, RegSlots
<1>5. r \notin Live /\ Live' = Live \cup {r}
  BY <1>1 DEF IInv, TypeOK, Live
<1> QED
  <2>1. Cons(r, Stacks[s]) = Registry!Cons(r, Stacks[s])
    BY DEF Cons, Registry!Cons
  <2> QED
    BY <2>1, <1>1, <1>3, <1>4, <1>5 DEF Registry!Register, Stacks, Live, Snap, RegSlots

LEMMA DeregisterRefines ==
    ASSUME IInv, NEW t \in Threads, NEW r \in Regs, DeregisterKernel(t, r)
    PROVE  \E s \in RegSlots : Registry!Withdraw(r, s)
<1> USE NoneAssumption, SlotsAssumption
<1>0. PICK s \in RegSlots : s = where[r]
  BY DEF DeregisterKernel, IInv, ListInv, RegSlots
<1>1. PICK i \in 1..Len(kernels[s]) :
         kernels[s][i] = r /\ kernels' = [kernels EXCEPT ![s] = RemoveAt(kernels[s], i)]
  BY <1>0 DEF DeregisterKernel
<1>2. /\ writer = None /\ status[r] = "held"
      /\ status' = [status EXCEPT ![r] = "closing"]
      /\ reading' = reading
      /\ table' = [table EXCEPT ![bg] = [table[bg] EXCEPT ![s] = Newest(kernels'[s])]]
  BY <1>0 DEF DeregisterKernel, CanLock, UpdateDispatchTable
<1>3. bg \in Insts /\ \A u \in Threads : reading[u] # bg
  BY <1>2, InstFacts DEF IInv, TypeOK, ReaderInv
<1>4. Snap' = Snap
  BY <1>2, <1>3, SnapStable DEF IInv, TypeOK
<1>5. Stacks[s] = kernels[s] /\ Stacks' = [Stacks EXCEPT ![s] = RemoveAt(Stacks[s], i)]
  BY <1>1, <1>2 DEF IInv, TypeOK, Stacks, RegSlots
<1>6. Live' = Live
  BY <1>2 DEF IInv, TypeOK, Live
<1>7. Registry!Withdraw(r, s)
  <2>1. RemoveAt(Stacks[s], i) = Registry!RemoveAt(Stacks[s], i)
    BY DEF RemoveAt, Registry!RemoveAt
  <2> QED
    BY <2>1, <1>1, <1>2, <1>4, <1>5, <1>6
       DEF Registry!Withdraw, Stacks, Live, Snap, RegSlots
<1> QED
  BY <1>7

LEMMA FinishRefines ==
    ASSUME IInv, NEW t \in Threads, FinishWrite(t)
    PROVE  (\E r \in Regs : Registry!Release(r)) \/ UNCHANGED Registry!absVars
<1> USE NoneAssumption, SlotsAssumption
<1>1. /\ opReg \in Regs /\ opSlot \in RegSlots
      /\ status[opReg] \in {"pending", "closing"}
      /\ \A u \in Threads : reading[u] # bg
      /\ table' = [table EXCEPT ![bg] = [table[bg] EXCEPT ![opSlot] = Newest(kernels[opSlot])]]
      /\ status' = [status EXCEPT ![opReg] =
                       IF status[opReg] = "pending" THEN "held" ELSE "free"]
      /\ kernels' = kernels /\ reading' = reading
  BY DEF FinishWrite, IInv, WriterInv, RegSlots
<1>2. fg \in Insts /\ bg \in Insts /\ Insts = {fg, bg}
  BY InstFacts DEF IInv, TypeOK
<1>3. Snap' = Snap /\ Stacks' = Stacks
  BY <1>1, <1>2, SnapStable DEF IInv, TypeOK, Stacks
<1>4. CASE status[opReg] = "pending"
  <2>1. Live' = Live
    BY <1>1, <1>4 DEF IInv, TypeOK, Live
  <2> QED
    BY <2>1, <1>3, Stutter
<1>5. CASE status[opReg] = "closing"
  <2>0. PICK r \in Regs : r = opReg
    BY <1>1
  <2>1. opReg \in Live /\ Live' = Live \ {opReg}
    BY <1>1, <1>5 DEF IInv, TypeOK, Live
  <2>2. \A s \in Slots : opReg \notin ToSet(kernels[s])
    BY <1>1, <1>5 DEF IInv, ListInv
  <2>3. \A s \in RegSlots : \A i \in 1..Len(Stacks[s]) : Stacks[s][i] # opReg
    <3> SUFFICES ASSUME NEW s \in RegSlots, NEW i \in 1..Len(kernels[s])
                 PROVE  kernels[s][i] # opReg
      BY DEF Stacks
    <3>1. s \in Slots /\ kernels[s] \in Seq(Regs)
      BY DEF IInv, TypeOK, RegSlots
    <3>2. kernels[s][i] \in ToSet(kernels[s])
      BY <3>1, LenProperties DEF ToSet
    <3> QED
      BY <3>1, <3>2, <2>2
  <2>4. \A s \in RegSlots : table[fg][s] # opReg
    <3>1. opReg # None
      BY <1>1
    <3> QED
      BY <3>1, <2>2, ForegroundListed DEF RegSlots
  <2>5. ASSUME NEW u \in Threads, Snap[u] # None
        PROVE  \A s \in RegSlots : Snap[u][s] # opReg
    BY <2>4, <2>5, <1>1, <1>2 DEF Snap, IInv, TypeOK
  <2>6. Registry!Release(r)
    BY <2>0, <2>1, <2>3, <2>5, <1>3
       DEF Registry!Release, Registry!Stacked, Stacks, Live, Snap, RegSlots
  <2> QED
    BY <2>6
<1> QED
  BY <1>1, <1>4, <1>5

LEMMA ReadRefines ==
    ASSUME IInv, NEW t \in Threads
    PROVE  /\ BeginRead(t) => Registry!Enter(t)
           /\ EndRead(t) => Registry!Leave(t)
<1> USE NoneAssumption
<1>1. /\ fg \in Insts /\ reading \in [Threads -> Insts \cup {None}]
      /\ table \in [Insts -> [Slots -> Regs \cup {None}]]
  BY DEF IInv, TypeOK
<1>2. ASSUME NEW i \in Insts
      PROVE  [s \in RegSlots |-> table[i][s]] # None
  <2>1. [s \in RegSlots |-> table[i][s]] \in [RegSlots -> Regs \cup {None}]
    BY <1>1 DEF RegSlots
  <2> QED
    BY <2>1, NotATableAssumption DEF RegSlots
<1>3. Snap[t] = None <=> reading[t] = None
  BY <1>1, <1>2 DEF Snap
<1>4. [s \in RegSlots |-> table[fg][s]] = [s \in RegSlots |-> Registry!Top(Stacks[s])]
  BY DEF IInv, TableInv, Registry!Top, Newest, Stacks, RegSlots
<1>5. ASSUME BeginRead(t) PROVE Registry!Enter(t)
  <2>1. /\ reading[t] = None /\ reading' = [reading EXCEPT ![t] = fg]
        /\ UNCHANGED <<kernels, table, status>>
    BY <1>5 DEF BeginRead
  <2>2. Snap' = [Snap EXCEPT ![t] = [s \in RegSlots |-> table[fg][s]]]
    BY <2>1, <1>1 DEF Snap
  <2>3. Stacks' = Stacks /\ Live' = Live
    BY <2>1 DEF Stacks, Live
  <2> QED
    BY <2>1, <2>2, <2>3, <1>3, <1>4 DEF Registry!Enter, Stacks, Live, Snap, RegSlots
<1>6. ASSUME EndRead(t) PROVE Registry!Leave(t)
  <2>1. /\ reading[t] # None /\ reading' = [reading EXCEPT ![t] = None]
        /\ UNCHANGED <<kernels, table, status>>
    BY <1>6 DEF EndRead
  <2>2. Snap' = [Snap EXCEPT ![t] = None]
    BY <2>1, <1>1 DEF Snap
  <2>3. Stacks' = Stacks /\ Live' = Live
    BY <2>1 DEF Stacks, Live
  <2> QED
    BY <2>1, <2>2, <2>3, <1>3 DEF Registry!Leave, Stacks, Live, Snap, RegSlots
<1> QED
  BY <1>5, <1>6

LEMMA UndefinedRefines ==
    ASSUME IInv, NEW t \in Threads, NEW r \in Regs, RegisterUndefined(t, r)
    PROVE  UNCHANGED Registry!absVars
<1> USE NoneAssumption, SlotsAssumption
<1>1. /\ writer = None /\ status[r] = "free"
      /\ kernels' = [kernels EXCEPT ![UndefinedKey] = Cons(r, kernels[UndefinedKey])]
      /\ status' = [status EXCEPT ![r] = "orphan"]
      /\ table' = [table EXCEPT ![bg] = table[fg]]
      /\ reading' = reading
  BY DEF RegisterUndefined, CanLock
<1>2. bg \in Insts /\ \A u \in Threads : reading[u] # bg
  BY <1>1, InstFacts DEF IInv, TypeOK, ReaderInv
<1>3. Snap' = Snap
  BY <1>1, <1>2, SnapStable DEF IInv, TypeOK
<1>4. Stacks' = Stacks /\ Live' = Live
  BY <1>1 DEF IInv, TypeOK, Stacks, Live, RegSlots
<1> QED
  BY <1>3, <1>4, Stutter

LEMMA RefinementStep == IInv /\ [Next]_vars => [Registry!AbsNext]_(Registry!absVars)
<1> SUFFICES ASSUME IInv, [Next]_vars
             PROVE  Registry!AbsNext \/ UNCHANGED Registry!absVars
  OBVIOUS
<1>1. CASE UNCHANGED vars
  <2>1. Stacks' = Stacks /\ Live' = Live /\ Snap' = Snap
    BY <1>1 DEF vars, Stacks, Live, Snap
  <2> QED
    BY <2>1, Stutter
<1>2. ASSUME NEW t \in Threads, NEW r \in Regs, NEW s \in Slots, RegisterKernel(t, r, s)
      PROVE  Registry!AbsNext
  BY <1>2, RegisterRefines DEF Registry!AbsNext, RegSlots
<1>3. ASSUME NEW t \in Threads, NEW r \in Regs, RegisterUndefined(t, r)
      PROVE  UNCHANGED Registry!absVars
  BY <1>3, UndefinedRefines
<1>4. ASSUME NEW t \in Threads, NEW r \in Regs, DeregisterKernel(t, r)
      PROVE  Registry!AbsNext
  BY <1>4, DeregisterRefines DEF Registry!AbsNext, RegSlots
<1>5. ASSUME NEW t \in Threads, FinishWrite(t)
      PROVE  Registry!AbsNext \/ UNCHANGED Registry!absVars
  BY <1>5, FinishRefines DEF Registry!AbsNext
<1>6. ASSUME NEW t \in Threads, BeginRead(t) \/ EndRead(t)
      PROVE  Registry!AbsNext
  BY <1>6, ReadRefines DEF Registry!AbsNext
<1> QED
  BY <1>1, <1>2, <1>3, <1>4, <1>5, <1>6 DEF Next

LEMMA RefinementInit == Init => Registry!AbsInit
<1> USE NoneAssumption
<1> SUFFICES ASSUME Init PROVE Registry!AbsInit
  OBVIOUS
<1>1. Stacks = [s \in RegSlots |-> <<>>] /\ Snap = [t \in Threads |-> None]
  BY DEF Init, Stacks, Snap, RegSlots
<1>2. Live = {}
  BY DEF Init, Live
<1> QED
  BY <1>1, <1>2 DEF Registry!AbsInit, Stacks, Live, Snap, RegSlots

\* The two-instance table behind kernelsMutex_ implements the registry:
\* consistent snapshots, the newest registration wins, code is released
\* only when no call can reach it.
THEOREM Refinement == Spec => ImplementsRegistry
<1>1. Init => Registry!AbsInit
  BY RefinementInit
<1>2. IInv /\ [Next]_vars => [Registry!AbsNext]_(Registry!absVars)
  BY RefinementStep
<1> QED
  BY <1>1, <1>2, Invariance, PTL DEF Spec, ImplementsRegistry, Registry!AbsSpec

-----------------------------------------------------------------------------
\* Kernel functions with their functors (KernelFunctions).  Of the calls at
\* one place of the table, as long as no two of them made its functor at once:
\* at most one makes it, while there is none, and the others run with it.

FunctorIds == Regs \cup 1..MaxFunctors \cup {None}

CallTypes ==
    /\ functor \in [Insts -> [Slots -> FunctorIds]]
    /\ call \in [Threads -> [stage : {"idle", "making", "running"},
                             slot : Slots \cup {None}, functor : FunctorIds]]

Place(t) == <<reading[t], call[t].slot>>

CallOk(t) ==
    call[t].stage # "idle" =>
        /\ reading[t] # None /\ call[t].slot \in Slots
        /\ Place(t) \notin raced =>
              IF call[t].stage = "making"
              THEN /\ functor[reading[t]][call[t].slot] = None
                   /\ Making(reading[t], call[t].slot) = {t}
              ELSE call[t].functor \in {None, functor[reading[t]][call[t].slot]}

CallInv == CallTypes /\ \A t \in Threads : CallOk(t)

\* Every step is one of OperatorEntry, or leaves its variables alone.
LEMMA KernelStepIsStep == [KernelNext]_kernelVars => [Next]_vars
  BY DEF KernelNext, Next, kernelVars, RefuseBoxed, FindFunctor, FirstCall, EndKernelCall

\* The background instance, which alone is written, has no reader.
LEMMA WrittenUnread ==
    ASSUME IInv, NEW t \in Threads, NEW r \in Regs, NEW s \in Slots,
           RegisterKernel(t, r, s) \/ RegisterUndefined(t, r) \/ DeregisterKernel(t, r) \/ FinishWrite(t)
    PROVE  reading' = reading /\ \A u \in Threads : reading[u] # bg
<1>1. reading' = reading
  BY DEF RegisterKernel, RegisterUndefined, DeregisterKernel, FinishWrite, UpdateDispatchTable
<1>2. CASE FinishWrite(t)
  BY <1>1, <1>2 DEF FinishWrite
<1>3. CASE ~FinishWrite(t)
  <2>1. writer = None
    BY <1>3 DEF RegisterKernel, RegisterUndefined, DeregisterKernel, CanLock
  <2> QED
    BY <1>1, <2>1 DEF IInv, ReaderInv
<1> QED
  BY <1>2, <1>3

\* A step that leaves the calls, and the places that they are at, keeps what
\* is said of the calls.
LEMMA CallsUntouched ==
    ASSUME CallInv, CallTypes', reading' = reading, call' = call,
           \A t \in Threads : \A s \in Slots : reading[t] # None =>
              /\ functor'[reading[t]][s] = functor[reading[t]][s]
              /\ <<reading[t], s>> \in raced => <<reading[t], s>> \in raced'
    PROVE  CallInv'
<1>1. \A i, s : Making(i, s)' = Making(i, s)
  BY DEF Making
<1>2. ASSUME NEW t \in Threads PROVE CallOk(t)'
  <2>1. CallOk(t)
    BY DEF CallInv
  <2>2. ASSUME call[t].stage # "idle"
        PROVE  /\ reading[t] # None /\ call[t].slot \in Slots
               /\ functor'[reading[t]][call[t].slot] = functor[reading[t]][call[t].slot]
               /\ Place(t) \in raced => Place(t) \in raced'
    BY <2>1, <2>2 DEF CallOk, Place
  <2>3. Place(t)' = Place(t)
    BY DEF Place
  <2> QED
    BY <1>1, <2>1, <2>2, <2>3 DEF CallOk
<1> QED
  BY <1>2 DEF CallInv

\* A write copies a kernel, or after a refusal a whole instance.
LEMMA CopyPreserves ==
    ASSUME IInv, IInv', CallInv, reading' = reading, \A u \in Threads : reading[u] # bg,
           NEW s \in Slots, CopyKernel(s) \/ CopyInstance
    PROVE  CallInv'
<1>1. /\ fg \in Insts /\ bg \in Insts /\ bg # fg /\ Insts = {fg, bg}
      /\ table' \in [Insts -> [Slots -> Regs \cup {None}]]
      /\ reading \in [Threads -> Insts \cup {None}]
  BY InstFacts DEF IInv, TypeOK
<1>2. functor \in [Insts -> [Slots -> FunctorIds]] /\ call' = call
  BY DEF CallInv, CallTypes, CopyKernel, CopyInstance
<1>3. CASE CopyKernel(s)
  <2>1. Fresh(table'[bg][s]) \in FunctorIds
    BY <1>1 DEF Fresh, FunctorIds
  <2>2. functor' = [functor EXCEPT ![bg] = [functor[bg] EXCEPT ![s] = Fresh(table'[bg][s])]]
    BY <1>3 DEF CopyKernel
  <2>3. functor' \in [Insts -> [Slots -> FunctorIds]]
    BY <1>1, <1>2, <2>1, <2>2
  <2>4. CallTypes'
    BY <1>2, <2>3 DEF CallInv, CallTypes
  <2>5. \A i \in Insts \ {bg} : functor'[i] = functor[i]
    BY <1>2, <2>2
  <2>6. \A i \in Insts \ {bg} : \A z \in Slots : <<i, z>> \in raced => <<i, z>> \in raced'
    BY <1>3 DEF CopyKernel
  <2> QED
    BY <1>1, <1>2, <2>4, <2>5, <2>6, CallsUntouched
<1>4. CASE CopyInstance
  <2>1. functor' = [functor EXCEPT ![bg] = functor[fg]]
    BY <1>4 DEF CopyInstance
  <2>2. functor' \in [Insts -> [Slots -> FunctorIds]]
    BY <1>1, <1>2, <2>1
  <2>3. CallTypes'
    BY <1>2, <2>2 DEF CallInv, CallTypes
  <2>4. \A i \in Insts \ {bg} : functor'[i] = functor[i]
    BY <1>2, <2>1
  <2>5. \A i \in Insts \ {bg} : \A z \in Slots : <<i, z>> \in raced => <<i, z>> \in raced'
    <3>1. \A p : p[1] = fg /\ p \in raced => p \in raced'
      BY <1>4 DEF CopyInstance
    <3> QED
      BY <1>1, <3>1
  <2> QED
    BY <1>1, <1>2, <2>3, <2>4, <2>5, CallsUntouched
<1> QED
  BY <1>3, <1>4

\* A call enters or leaves the table.
LEMMA EnterLeavePreserves ==
    ASSUME IInv, CallInv, NEW t \in Threads, UNCHANGED <<functor, raced>>,
           \/ BeginRead(t) /\ call' = call
           \/ EndRead(t) /\ call' = [call EXCEPT ![t] = Idle]
           \/ EndRead(t) /\ call[t] = Idle /\ call' = call
    PROVE  CallInv'
<1>1. /\ call \in [Threads -> [stage : {"idle", "making", "running"},
                               slot : Slots \cup {None}, functor : FunctorIds]]
      /\ reading \in [Threads -> Insts \cup {None}] /\ fg \in Insts /\ Idle.stage = "idle"
  BY DEF CallInv, CallTypes, IInv, TypeOK, Idle
<1>2. Idle \in [stage : {"idle", "making", "running"}, slot : Slots \cup {None}, functor : FunctorIds]
  BY DEF Idle, FunctorIds
<1>3. CallTypes'
  BY <1>1, <1>2 DEF CallInv, CallTypes
<1>4. \A u \in Threads \ {t} : reading'[u] = reading[u] /\ call'[u] = call[u]
  BY <1>1 DEF BeginRead, EndRead
<1>5. call'[t].stage = "idle"
  <2>1. CASE BeginRead(t) /\ call' = call
    <3>1. reading[t] = None
      BY <2>1 DEF BeginRead
    <3> QED
      BY <1>1, <2>1, <3>1 DEF CallInv, CallOk
  <2>2. CASE ~(BeginRead(t) /\ call' = call)
    BY <1>1, <2>2
  <2> QED
    BY <2>1, <2>2
<1>6. ASSUME NEW u \in Threads \ {t}, call[u].stage = "making",
             Making(reading[u], call[u].slot) = {u}
      PROVE  Making(reading[u], call[u].slot)' = {u}
  BY <1>4, <1>5, <1>6 DEF Making
<1>7. ASSUME NEW u \in Threads PROVE CallOk(u)'
  <2>1. CASE u = t
    BY <1>5, <2>1 DEF CallOk
  <2>2. CASE u # t
    <3>1. CallOk(u) /\ reading'[u] = reading[u] /\ call'[u] = call[u] /\ Place(u)' = Place(u)
      BY <1>4, <2>2 DEF CallInv, Place
    <3> QED
      BY <1>6, <2>2, <3>1 DEF CallOk
  <2> QED
    BY <2>1, <2>2
<1> QED
  BY <1>3, <1>7 DEF CallInv

\* A call takes the functor it finds, or begins to make one.
LEMMA FindPreserves ==
    ASSUME IInv, CallInv, NEW t \in Threads, NEW s \in Slots, FindFunctor(t, s)
    PROVE  CallInv'
<1>1. PICK i, f, makes : /\ i = reading[t] /\ f = functor[reading[t]][s]
                         /\ makes = (f = None /\ table[reading[t]][s] \in Lazy)
  OBVIOUS
<1>2. PICK c : c = [stage |-> IF makes THEN "making" ELSE "running", slot |-> s, functor |-> f]
  OBVIOUS
<1>3. /\ i # None /\ call[t] = Idle /\ UNCHANGED <<reading, functor>>
      /\ call' = [call EXCEPT ![t] = c]
      /\ raced' = IF makes /\ Making(i, s) # {} THEN raced \cup {<<i, s>>} ELSE raced
  BY <1>1, <1>2 DEF FindFunctor, vars
<1>4. /\ call \in [Threads -> [stage : {"idle", "making", "running"},
                               slot : Slots \cup {None}, functor : FunctorIds]]
      /\ functor \in [Insts -> [Slots -> FunctorIds]] /\ i \in Insts
  BY <1>1, <1>3 DEF CallInv, CallTypes, IInv, TypeOK
<1>5. /\ c \in [stage : {"idle", "making", "running"}, slot : Slots \cup {None}, functor : FunctorIds]
      /\ c.stage = (IF makes THEN "making" ELSE "running") /\ c.slot = s /\ c.functor = f
  BY <1>1, <1>2, <1>4
<1>6. CallTypes'
  BY <1>3, <1>4, <1>5 DEF CallTypes
<1>7. call'[t] = c /\ \A u \in Threads \ {t} : call'[u] = call[u]
  BY <1>3, <1>4
<1>8. call[t].stage = "idle"
  BY <1>3 DEF Idle
<1>9. raced \subseteq raced'
  BY <1>3
<1>10. CallOk(t)'
  <2>1. CASE makes
    <3>1. ASSUME <<i, s>> \notin raced' PROVE Making(i, s)' = {t}
      <4>1. Making(i, s) = {}
        BY <1>3, <2>1, <3>1
      <4> QED
        BY <1>1, <1>3, <1>5, <1>7, <2>1, <4>1 DEF Making
    <3> QED
      BY <1>1, <1>3, <1>5, <1>7, <2>1, <3>1 DEF CallOk, Place
  <2>2. CASE ~makes
    BY <1>1, <1>3, <1>5, <1>7, <2>2 DEF CallOk, Place
  <2> QED
    BY <2>1, <2>2
<1>11. ASSUME NEW u \in Threads \ {t} PROVE CallOk(u)'
  <2>1. CallOk(u) /\ call'[u] = call[u] /\ reading'[u] = reading[u] /\ Place(u)' = Place(u)
    BY <1>3, <1>7 DEF CallInv, Place
  <2>2. ASSUME call[u].stage = "making", Place(u) \notin raced'
        PROVE  Making(reading[u], call[u].slot)' = {u}
    <3>1. Making(reading[u], call[u].slot) = {u}
      BY <1>9, <2>1, <2>2 DEF CallOk
    <3>2. ~(makes /\ reading[u] = i /\ call[u].slot = s)
      BY <1>3, <2>2, <3>1 DEF Place
    <3>3. ~(call'[t].stage = "making" /\ call'[t].slot = call[u].slot /\ reading'[t] = reading[u])
      BY <1>1, <1>3, <1>5, <1>7, <3>2
    <3> QED
      BY <1>3, <1>7, <1>8, <3>1, <3>3 DEF Making
  <2> QED
    BY <1>3, <1>9, <2>1, <2>2 DEF CallOk
<1> QED
  BY <1>6, <1>10, <1>11 DEF CallInv

\* The functor is made, where there was none.
LEMMA FirstCallPreserves ==
    ASSUME IInv, CallInv, NEW t \in Threads, FirstCall(t)
    PROVE  CallInv'
<1>1. PICK i, s : i = reading[t] /\ s = call[t].slot
  OBVIOUS
<1>2. PICK f : /\ f \in 1..MaxFunctors
               /\ functor' = [functor EXCEPT ![i][s] = f]
               /\ call' = [call EXCEPT ![t] = [stage |-> "running", slot |-> s, functor |-> f]]
  <2> DEFINE free == (1..MaxFunctors) \ (Held \cup {call[u].functor : u \in Threads})
             f == CHOOSE n \in free : \A k \in free : n <= k
  <2>1. /\ free # {}
        /\ functor' = [functor EXCEPT ![reading[t]][call[t].slot] = f]
        /\ call' = [call EXCEPT ![t] = [stage |-> "running", slot |-> call[t].slot, functor |-> f]]
    BY Zenon DEF FirstCall
  <2>2. \E n \in free : \A k \in free : n <= k
    <3>1. free \subseteq Nat
      BY FunctorsAssumption
    <3> QED
      BY <2>1, <3>1, NatMin
  <2>3. f \in free
    BY <2>2
  <2> QED
    BY <1>1, <2>1, <2>3
<1>3. call[t].stage = "making" /\ UNCHANGED <<reading, raced>>
  BY DEF FirstCall, vars
<1>4. /\ call \in [Threads -> [stage : {"idle", "making", "running"},
                               slot : Slots \cup {None}, functor : FunctorIds]]
      /\ functor \in [Insts -> [Slots -> FunctorIds]]
      /\ reading \in [Threads -> Insts \cup {None}]
  BY DEF CallInv, CallTypes, IInv, TypeOK
<1>5. i \in Insts /\ s \in Slots
  BY <1>1, <1>3, <1>4 DEF CallInv, CallOk
<1>6. PICK c : c = [stage |-> "running", slot |-> s, functor |-> f]
  OBVIOUS
<1>7. /\ c \in [stage : {"idle", "making", "running"}, slot : Slots \cup {None}, functor : FunctorIds]
      /\ c.stage = "running" /\ c.slot = s /\ c.functor = f /\ f \in FunctorIds
  BY <1>2, <1>5, <1>6 DEF FunctorIds
<1>8. call'[t] = c /\ \A u \in Threads \ {t} : call'[u] = call[u]
  BY <1>2, <1>4, <1>6
<1>9. \A j \in Insts : \A z \in Slots : functor'[j][z] = IF j = i /\ z = s THEN f ELSE functor[j][z]
  BY <1>2, <1>4, <1>5
<1>10. CallTypes'
  <2>1. functor' = [functor EXCEPT ![i] = [functor[i] EXCEPT ![s] = f]]
    BY <1>2, <1>5
  <2>2. [functor[i] EXCEPT ![s] = f] \in [Slots -> FunctorIds]
    BY <1>4, <1>5, <1>7
  <2>3. functor' \in [Insts -> [Slots -> FunctorIds]]
    BY <1>4, <1>5, <2>1, <2>2
  <2> QED
    BY <1>2, <1>4, <1>6, <1>7, <2>3 DEF CallTypes
<1>11. CallOk(t)'
  <2>1. call'[t].functor = functor'[i][s]
    BY <1>5, <1>7, <1>8, <1>9
  <2> QED
    BY <1>1, <1>3, <1>4, <1>5, <1>7, <1>8, <2>1, NoneAssumption DEF CallOk
<1>12. ASSUME NEW u \in Threads \ {t} PROVE CallOk(u)'
  <2>1. CallOk(u) /\ call'[u] = call[u] /\ reading'[u] = reading[u] /\ Place(u)' = Place(u)
    BY <1>3, <1>8 DEF CallInv, Place
  <2> SUFFICES ASSUME call[u].stage # "idle", Place(u) \notin raced
               PROVE  IF call[u].stage = "making"
                      THEN /\ functor'[reading[u]][call[u].slot] = None
                           /\ Making(reading[u], call[u].slot)' = {u}
                      ELSE call[u].functor \in {None, functor'[reading[u]][call[u].slot]}
    BY <1>3, <2>1 DEF CallOk
  <2>2. reading[u] \in Insts /\ call[u].slot \in Slots
    BY <1>4, <2>1 DEF CallOk
  <2>3. CASE Place(u) = Place(t)
    <3>1. reading[u] = i /\ call[u].slot = s /\ functor[i][s] = None /\ Making(i, s) = {t}
      BY <1>1, <1>3, <2>3 DEF Place, CallInv, CallOk
    <3>2. call[u].stage # "making"
      BY <3>1 DEF Making
    <3>3. call[u].functor = None
      BY <2>1, <3>1, <3>2 DEF CallOk
    <3> QED
      BY <3>2, <3>3
  <2>4. CASE Place(u) # Place(t)
    <3>1. ~(reading[u] = i /\ call[u].slot = s)
      BY <1>1, <2>4 DEF Place
    <3>2. functor'[reading[u]][call[u].slot] = functor[reading[u]][call[u].slot]
      BY <1>9, <2>2, <3>1
    <3>3. Making(reading[u], call[u].slot) = {u} => Making(reading[u], call[u].slot)' = {u}
      BY <1>3, <1>7, <1>8 DEF Making
    <3> QED
      BY <2>1, <3>2, <3>3 DEF CallOk
  <2> QED
    BY <2>3, <2>4
<1> QED
  BY <1>10, <1>11, <1>12 DEF CallInv

LEMMA CallStep ==
    ASSUME IInv, CallInv, [KernelNext]_kernelVars
    PROVE  CallInv'
<1>1. IInv'
  BY KernelStepIsStep, NextIInv
<1>2. ASSUME NEW t \in Threads, NEW r \in Regs, NEW s \in Slots,
             \/ RegisterKernel(t, r, s) /\ CopyKernel(s)
             \/ RegisterUndefined(t, r) /\ CopyInstance
      PROVE  CallInv'
  <2>1. reading' = reading /\ \A u \in Threads : reading[u] # bg
    BY <1>2, WrittenUnread
  <2> QED
    BY <1>1, <1>2, <2>1, CopyPreserves
<1>3. ASSUME NEW t \in Threads, NEW r \in Regs, DeregisterKernel(t, r), CopyKernel(where[r])
      PROVE  CallInv'
  <2>1. where[r] \in Slots
    BY <1>3 DEF DeregisterKernel, IInv, ListInv
  <2>2. reading' = reading /\ \A u \in Threads : reading[u] # bg
    BY <1>3, <2>1, WrittenUnread
  <2> QED
    BY <1>1, <1>3, <2>1, <2>2, CopyPreserves
<1>4. ASSUME NEW t \in Threads, FinishWrite(t), CopyKernel(opSlot)
      PROVE  CallInv'
  <2>1. opSlot \in Slots /\ opReg \in Regs
    BY <1>4, NoneAssumption DEF FinishWrite, IInv, WriterInv
  <2>2. reading' = reading /\ \A u \in Threads : reading[u] # bg
    BY <1>4, <2>1, WrittenUnread
  <2> QED
    BY <1>1, <1>4, <2>1, <2>2, CopyPreserves
<1>5. ASSUME NEW t \in Threads, \/ BeginRead(t) /\ UNCHANGED <<functor, call, raced>>
                                \/ EndKernelCall(t)
      PROVE  CallInv'
  BY <1>5, EnterLeavePreserves DEF EndKernelCall
<1>6. ASSUME NEW t \in Threads, NEW s \in Slots, FindFunctor(t, s) \/ RefuseBoxed(t, s)
      PROVE  CallInv'
  BY <1>6, FindPreserves, EnterLeavePreserves DEF RefuseBoxed
<1>7. ASSUME NEW t \in Threads, FirstCall(t) PROVE CallInv'
  BY <1>7, FirstCallPreserves
<1>8. CASE UNCHANGED kernelVars
  <2>1. CallTypes' /\ UNCHANGED <<reading, call, functor, raced>>
    BY <1>8 DEF CallInv, CallTypes, kernelVars, vars
  <2> QED
    BY <2>1, CallsUntouched
<1>9. Slots # {}
  BY DEF Slots
<1> QED
  BY <1>2, <1>3, <1>4, <1>5, <1>6, <1>7, <1>8, <1>9 DEF KernelNext

LEMMA CallInitially == KernelInit => CallInv
<1> SUFFICES ASSUME KernelInit PROVE CallInv
  OBVIOUS
<1>1. Idle \in [stage : {"idle", "making", "running"}, slot : Slots \cup {None}, functor : FunctorIds]
  BY DEF Idle, FunctorIds
<1>2. CallTypes
  BY <1>1 DEF KernelInit, CallTypes, FunctorIds
<1>3. \A t \in Threads : CallOk(t)
  BY DEF KernelInit, CallOk, Idle
<1> QED
  BY <1>2, <1>3 DEF CallInv

\* Calls of kernels change nothing that registering depends on: everything
\* said above of OperatorEntry holds of it with its KernelFunctions as well.
THEOREM KernelsKeepEntry == KernelSpec => Spec
<1>1. KernelInit => Init
  BY DEF KernelInit
<1> QED
  BY <1>1, KernelStepIsStep, PTL DEF KernelSpec, Spec

\* The functor a call runs with is kept by the list or the table for as long
\* as the call lasts, although getFunctor_ hands out a raw pointer
\* (KernelFunction.h:357), unless two first calls met at its place.
THEOREM FunctorsAreKept == KernelSpec => []FunctorOutlivesCall
<1>1. KernelInit => IInv /\ CallInv
  BY InitIInv, CallInitially DEF KernelInit
<1>2. IInv /\ CallInv /\ [KernelNext]_kernelVars => (IInv /\ CallInv)'
  BY KernelStepIsStep, NextIInv, CallStep
<1>3. IInv /\ CallInv => FunctorOutlivesCall
  <2> SUFFICES ASSUME IInv, CallInv, NEW t \in Threads, call[t].stage = "running",
                      Place(t) \notin raced
               PROVE  call[t].functor \in Held \cup {None}
    BY DEF FunctorOutlivesCall, Place
  <2>1. /\ reading[t] # None /\ call[t].slot \in Slots
        /\ call[t].functor \in {None, functor[reading[t]][call[t].slot]}
    BY DEF CallInv, CallOk
  <2>2. reading[t] \in Insts
    BY <2>1 DEF IInv, TypeOK
  <2>3. functor[reading[t]][call[t].slot] \in Held
    BY <2>1, <2>2 DEF Held
  <2> QED
    BY <2>1, <2>3
<1> QED
  BY <1>1, <1>2, <1>3, PTL DEF KernelSpec

-----------------------------------------------------------------------------
\* Calls and fallbacks.

\* The types that AInv depends on; those of the operator's own table are part
\* of IInv.
FallbackTypes ==
    /\ fallback \in [Insts -> [Keys -> FbRegs \cup {None}]]
    /\ fbFg \in Insts /\ fbWriter \in Threads \cup {None}
    /\ fbKey \in Keys \cup {None} /\ fbReg \in FbRegs \cup {None}
    /\ fbReading \in [Threads -> Insts \cup {None}]
    /\ fbStatus \in [FbRegs -> {"free", "pending", "held", "closing"}]
    /\ fbWhere \in [FbRegs -> Keys \cup {None}]
    /\ hollow \in [Insts -> SUBSET Keys]
    /\ key \in [Threads -> Keys \cup {NoKey, None}]
    /\ runs \in [Threads -> Regs \cup FbRegs \cup {None}]

\* One registration at a time is between two states, and its key is the one
\* being written.
FallbackWriter ==
    /\ fbWriter = None => fbKey = None /\ fbReg = None
    /\ fbWriter # None =>
          /\ fbKey \in Keys /\ fbReg \in FbRegs
          /\ fbWhere[fbReg] = fbKey /\ fbStatus[fbReg] \in {"pending", "closing"}
    /\ \A r \in FbRegs : fbStatus[r] \in {"pending", "closing"} => r = fbReg

\* The foreground instance holds the fallbacks that are registered, where their
\* handles look for them; the other one lags in the key being written at most,
\* and what it still shows there is not yet released.
FallbackTable ==
    /\ \A r \in FbRegs : fbStatus[r] \in {"pending", "held"} =>
          fbWhere[r] \in Keys /\ fallback[fbFg][fbWhere[r]] = r
    /\ \A r \in FbRegs : fbStatus[r] = "closing" => fallback[fbFg][fbWhere[r]] = None
    /\ \A k \in Keys : fallback[fbFg][k] # None =>
          fbStatus[fallback[fbFg][k]] \in {"pending", "held"} /\ fbWhere[fallback[fbFg][k]] = k
    /\ \A k \in Keys : k # fbKey => fallback[fbBg][k] = fallback[fbFg][k]
    /\ \A k \in Keys : fallback[fbBg][k] # None =>
          fbStatus[fallback[fbBg][k]] \in {"pending", "held", "closing"}

\* The background instance has readers only while a writer waits for them.
FallbackReaders == \A t \in Threads : fbReading[t] = fbBg => fbWriter # None

\* A call has a key, and holds both tables when it runs a kernel.
CallHolds ==
    \A t \in Threads :
        /\ reading[t] # None => key[t] \in Keys \cup {NoKey}
        /\ fbReading[t] # None => reading[t] # None
        /\ runs[t] # None => fbReading[t] # None

FallbackInv == FallbackTypes /\ FallbackWriter /\ FallbackTable /\ FallbackReaders

AInv == FallbackInv /\ CallHolds /\ PickStable

-----------------------------------------------------------------------------
LEMMA FbInstFacts ==
    ASSUME fbFg \in Insts
    PROVE  fbBg \in Insts /\ fbBg # fbFg /\ 1 - fbBg = fbFg /\ Insts = {fbFg, fbBg}
    BY DEF Insts, fbBg

LEMMA AInvInit == InitAll => AInv
<1>. SUFFICES ASSUME InitAll PROVE AInv
    OBVIOUS
<1>1. FallbackTypes
    BY DEF InitAll, FallbackTypes, Insts
<1>2. FallbackWriter /\ FallbackTable
    BY FbInstFacts DEF InitAll, FallbackWriter, FallbackTable, Insts
<1>3. FallbackReaders
    BY NoneAssumption, FbInstFacts DEF InitAll, FallbackReaders, Insts
<1>4. CallHolds /\ PickStable
    BY DEF InitAll, Init, CallHolds, PickStable
<1>. QED
    BY <1>1, <1>2, <1>3, <1>4 DEF AInv, FallbackInv

\* The operator's table changes only in the instance that nobody reads.
LEMMA TableStable ==
    ASSUME IInv, NEW t \in Threads, OperatorWrite(t), NEW u \in Threads, reading[u] # None
    PROVE  reading' = reading /\ table'[reading[u]] = table[reading[u]]
<1>1. reading[u] \in Insts /\ bg \in Insts /\ table \in [Insts -> [Slots -> Regs \cup {None}]]
    BY InstFacts DEF IInv, TypeOK
<1>2. CASE writer = None
    <2>1. reading[u] # bg
        BY <1>2 DEF IInv, ReaderInv
    <2>2. ~FinishWrite(t)
        BY <1>2, NoneAssumption DEF FinishWrite
    <2>. QED
        BY <1>1, <2>1, <2>2 DEF OperatorWrite, RegisterKernel, RegisterUndefined, DeregisterKernel,
                                UpdateDispatchTable
<1>3. CASE writer # None
    <2>1. FinishWrite(t)
        BY <1>3 DEF OperatorWrite, RegisterKernel, RegisterUndefined, DeregisterKernel, CanLock
    <2>. QED
        BY <1>1, <2>1 DEF FinishWrite
<1>. QED
    BY <1>2, <1>3

\* Steps that write the operator's own table leave the picks of all calls.
LEMMA StepOperator ==
    ASSUME IInv, AInv, NEW t \in Threads, OperatorWrite(t)
    PROVE  AInv'
<1>1. UNCHANGED <<fbVars, callVars>>
    BY DEF OperatorWrite
<1>2. FallbackInv'
    BY <1>1 DEF AInv, FallbackInv, FallbackTypes, FallbackWriter, FallbackTable, FallbackReaders,
               fbVars, callVars, fbBg
<1>3. reading' = reading
    BY DEF OperatorWrite, RegisterKernel, RegisterUndefined, DeregisterKernel, FinishWrite,
           UpdateDispatchTable
<1>4. CallHolds'
    BY <1>1, <1>3 DEF AInv, CallHolds, fbVars, callVars
<1>5. ASSUME NEW u \in Threads, runs'[u] # None
      PROVE  (runs[u] = Pick(reading[u], fbReading[u], key[u]))'
    <2>1. reading[u] # None /\ runs[u] = Pick(reading[u], fbReading[u], key[u])
        BY <1>1, <1>5 DEF AInv, CallHolds, PickStable, callVars
    <2>2. table'[reading[u]] = table[reading[u]]
        BY <2>1, TableStable
    <2>. QED
        BY <1>1, <1>3, <2>1, <2>2 DEF Pick, fbVars, callVars
<1>6. PickStable'
    BY <1>5 DEF PickStable
<1>. QED
    BY <1>2, <1>4, <1>6 DEF AInv

\* Steps that write the fallbacks: what remains to be shown of each is
\* FallbackInv, and that it left the instances alone that calls read.
LEMMA FallbackStep ==
    ASSUME AInv, UNCHANGED <<vars, callVars, fbReading>>, FallbackInv',
           \A u \in Threads : fbReading[u] # None => fallback'[fbReading[u]] = fallback[fbReading[u]]
    PROVE  AInv'
<1>1. CallHolds'
    BY DEF AInv, CallHolds, vars, callVars
<1>2. ASSUME NEW u \in Threads, runs'[u] # None
      PROVE  (runs[u] = Pick(reading[u], fbReading[u], key[u]))'
    <2>1. fbReading[u] # None /\ runs[u] = Pick(reading[u], fbReading[u], key[u])
        BY <1>2 DEF AInv, CallHolds, PickStable, callVars
    <2>2. fallback'[fbReading[u]] = fallback[fbReading[u]]
        BY <2>1
    <2>. QED
        BY <2>1, <2>2 DEF Pick, vars, callVars
<1>3. PickStable'
    BY <1>2 DEF PickStable
<1>. QED
    BY <1>1, <1>3 DEF AInv

\* While nobody writes, nobody reads the background instance.
LEMMA BackgroundUnread ==
    ASSUME AInv, NEW t \in Threads, fbWriter = None \/ \A u \in Threads : fbReading[u] # fbBg
    PROVE  /\ fbFg \in Insts /\ fbBg \in Insts /\ fbBg # fbFg /\ 1 - fbBg = fbFg
           /\ \A u \in Threads : fbReading[u] # None => fbReading[u] = fbFg
    BY FbInstFacts DEF AInv, FallbackInv, FallbackTypes, FallbackReaders

LEMMA StepRegisterFallback ==
    ASSUME AInv, NEW t \in Threads, NEW r \in FbRegs, NEW k \in Keys, RegisterFallback(t, r, k)
    PROVE  AInv'
<1>. USE DEF FallbackInv
<1>1. /\ fbWriter = None /\ fbKey = None /\ fbReg = None /\ fbStatus[r] = "free"
      /\ fallback[fbBg][k] = None
      /\ fallback' = [fallback EXCEPT ![fbBg][k] = r]
      /\ hollow' = [hollow EXCEPT ![fbBg] = @ \ {k}]
      /\ fbStatus' = [fbStatus EXCEPT ![r] = "pending"]
      /\ fbWhere' = [fbWhere EXCEPT ![r] = k]
      /\ fbFg' = fbBg /\ fbWriter' = t /\ fbKey' = k /\ fbReg' = r
      /\ UNCHANGED <<vars, callVars, fbReading>>
    BY DEF RegisterFallback, CanLockFb, FlipFallback, AInv, FallbackWriter
<1>2. /\ fbFg \in Insts /\ fbBg \in Insts /\ fbBg # fbFg
      /\ \A u \in Threads : fbReading[u] # None => fbReading[u] = fbFg
    BY <1>1, BackgroundUnread
<1>3. fbBg' = fbFg
    BY <1>1, <1>2, FbInstFacts DEF fbBg
<1>4. k # None /\ r # None /\ t # None
    BY NoneAssumption, FbAssumption DEF Slots
<1>5. /\ fallback \in [Insts -> [Keys -> FbRegs \cup {None}]]
      /\ fallback'[fbFg] = fallback[fbFg] /\ fallback'[fbBg][k] = r
      /\ \A c \in Keys : c # k => fallback'[fbBg][c] = fallback[fbBg][c]
      /\ \A c \in Keys : fallback[fbBg][c] = fallback[fbFg][c]
    BY <1>1, <1>2, NoneAssumption DEF AInv, FallbackTypes, FallbackTable, Slots
<1>6. FallbackTypes'
    <2>1. fallback' \in [Insts -> [Keys -> FbRegs \cup {None}]]
        BY <1>1, <1>2, <1>5
    <2>2. /\ fbStatus' \in [FbRegs -> {"free", "pending", "held", "closing"}]
          /\ fbWhere' \in [FbRegs -> Keys \cup {None}]
          /\ hollow' \in [Insts -> SUBSET Keys]
        BY <1>1, <1>2 DEF AInv, FallbackTypes
    <2>. QED
        BY <1>1, <1>2, <2>1, <2>2 DEF AInv, FallbackTypes, callVars
<1>7. FallbackWriter'
    BY <1>1, <1>4, FbAssumption DEF AInv, FallbackTypes, FallbackWriter
<1>8. FallbackTable'
    <2>1. /\ \A q \in FbRegs : q # r => fbStatus'[q] = fbStatus[q] /\ fbWhere'[q] = fbWhere[q]
          /\ fbStatus'[r] = "pending" /\ fbWhere'[r] = k
        BY <1>1 DEF AInv, FallbackTypes
    <2>2. \A c \in Keys : fallback[fbFg][c] # r
        BY <1>1, <1>4 DEF AInv, FallbackTable
    <2>3. \A c \in Keys : fallback[fbFg][c] # None =>
              /\ fallback[fbFg][c] \in FbRegs \ {r} /\ fbStatus[fallback[fbFg][c]] \in {"pending", "held"}
              /\ fbWhere[fallback[fbFg][c]] = c
        BY <1>2, <1>5, <2>2 DEF AInv, FallbackTable
    <2>4. ASSUME NEW q \in FbRegs, fbStatus'[q] \in {"pending", "held"}
          PROVE  fbWhere'[q] \in Keys /\ fallback'[fbBg][fbWhere'[q]] = q
        <3>1. CASE q = r
            BY <1>5, <2>1, <3>1
        <3>2. CASE q # r
            <4>1. fbWhere[q] \in Keys /\ fallback[fbFg][fbWhere[q]] = q /\ q # None
                BY <2>1, <2>4, <3>2, FbAssumption DEF AInv, FallbackTable
            <4>. QED
                BY <1>1, <1>5, <2>1, <3>2, <4>1
        <3>. QED
            BY <3>1, <3>2
    <2>5. \A c \in Keys : fallback'[fbBg][c] # None =>
              fbStatus'[fallback'[fbBg][c]] \in {"pending", "held"} /\ fbWhere'[fallback'[fbBg][c]] = c
        BY <1>5, <2>1, <2>3
    <2>6. \A q \in FbRegs : fbStatus'[q] # "closing"
        BY <1>1, <2>1, FbAssumption DEF AInv, FallbackWriter
    <2>. QED
        BY <1>1, <1>3, <1>5, <2>1, <2>3, <2>4, <2>5, <2>6 DEF FallbackTable
<1>9. FallbackReaders'
    BY <1>1, <1>4 DEF FallbackReaders
<1>10. \A u \in Threads : fbReading[u] # None => fallback'[fbReading[u]] = fallback[fbReading[u]]
    BY <1>2, <1>5
<1>. QED
    BY <1>1, <1>6, <1>7, <1>8, <1>9, <1>10, FallbackStep

\* The copy that LeftRight makes back changes nothing: outside a write the
\* instances agree.
LEMMA StepRejectFallback ==
    ASSUME AInv, NEW t \in Threads, NEW r \in FbRegs, NEW k \in Keys, RejectFallback(t, r, k)
    PROVE  AInv'
<1>. USE DEF FallbackInv
<1>1. /\ fbWriter = None /\ fbKey = None
      /\ fallback' = [fallback EXCEPT ![fbBg] = fallback[fbFg]]
      /\ hollow' = [hollow EXCEPT ![fbBg] = hollow[fbFg]]
      /\ UNCHANGED <<vars, callVars, fbFg, fbWriter, fbKey, fbReg, fbReading, fbStatus, fbWhere>>
    BY DEF RejectFallback, CanLockFb, AInv, FallbackWriter
<1>2. fbFg \in Insts /\ fbBg \in Insts /\ fbBg' = fbBg
    BY <1>1, FbInstFacts DEF AInv, FallbackTypes, fbBg
<1>3. fallback' = fallback
    <2>1. fallback \in [Insts -> [Keys -> FbRegs \cup {None}]]
        BY DEF AInv, FallbackTypes
    <2>2. \A c \in Keys : fallback[fbBg][c] = fallback[fbFg][c]
        BY <1>1, NoneAssumption DEF AInv, FallbackTable, Slots
    <2>3. fallback[fbBg] = fallback[fbFg]
        BY <1>2, <2>1, <2>2
    <2>. QED
        BY <1>1, <1>2, <2>1, <2>3
<1>4. FallbackTypes'
    BY <1>1, <1>2, <1>3 DEF AInv, FallbackTypes, callVars
<1>5. FallbackWriter' /\ FallbackTable' /\ FallbackReaders'
    BY <1>1, <1>2, <1>3 DEF AInv, FallbackWriter, FallbackTable, FallbackReaders
<1>. QED
    BY <1>1, <1>3, <1>4, <1>5, FallbackStep

LEMMA StepDeregisterFallback ==
    ASSUME AInv, NEW t \in Threads, NEW r \in FbRegs, DeregisterFallback(t, r)
    PROVE  AInv'
<1>. USE DEF FallbackInv
<1>0. PICK k : k = fbWhere[r]
    OBVIOUS
<1>1. /\ fbWriter = None /\ fbKey = None /\ fbReg = None /\ fbStatus[r] = "held"
      /\ fallback' = [fallback EXCEPT ![fbBg][k] = None]
      /\ hollow' = [hollow EXCEPT ![fbBg] = @ \ {k}]
      /\ fbStatus' = [fbStatus EXCEPT ![r] = "closing"]
      /\ fbWhere' = fbWhere
      /\ fbFg' = fbBg /\ fbWriter' = t /\ fbKey' = k /\ fbReg' = r
      /\ UNCHANGED <<vars, callVars, fbReading>>
    BY <1>0 DEF DeregisterFallback, CanLockFb, FlipFallback, AInv, FallbackWriter
<1>2. /\ fbFg \in Insts /\ fbBg \in Insts /\ fbBg # fbFg
      /\ \A u \in Threads : fbReading[u] # None => fbReading[u] = fbFg
    BY <1>1, BackgroundUnread
<1>3. fbBg' = fbFg
    BY <1>1, <1>2, FbInstFacts DEF fbBg
<1>4. k \in Keys /\ fallback[fbFg][k] = r /\ k # None /\ r # None /\ t # None
    BY <1>0, <1>1, NoneAssumption, FbAssumption DEF Slots, AInv, FallbackTable
<1>5. /\ fallback \in [Insts -> [Keys -> FbRegs \cup {None}]]
      /\ fallback'[fbFg] = fallback[fbFg] /\ fallback'[fbBg][k] = None
      /\ \A c \in Keys : c # k => fallback'[fbBg][c] = fallback[fbBg][c]
      /\ \A c \in Keys : fallback[fbBg][c] = fallback[fbFg][c]
    BY <1>1, <1>2, <1>4, NoneAssumption DEF AInv, FallbackTypes, FallbackTable, Slots
<1>6. FallbackTypes'
    <2>1. fallback' \in [Insts -> [Keys -> FbRegs \cup {None}]]
        BY <1>1, <1>2, <1>4, <1>5
    <2>2. /\ fbStatus' \in [FbRegs -> {"free", "pending", "held", "closing"}]
          /\ hollow' \in [Insts -> SUBSET Keys]
        BY <1>1, <1>2 DEF AInv, FallbackTypes
    <2>. QED
        BY <1>1, <1>2, <1>4, <2>1, <2>2 DEF AInv, FallbackTypes, callVars
<1>7. FallbackWriter'
    BY <1>0, <1>1, <1>4, FbAssumption DEF AInv, FallbackTypes, FallbackWriter
<1>8. FallbackTable'
    <2>1. /\ \A q \in FbRegs : q # r => fbStatus'[q] = fbStatus[q]
          /\ fbStatus'[r] = "closing" /\ fbWhere' = fbWhere
        BY <1>1 DEF AInv, FallbackTypes
    <2>2. \A c \in Keys : fallback[fbFg][c] # None =>
              /\ fallback[fbFg][c] \in FbRegs /\ fbStatus[fallback[fbFg][c]] \in {"pending", "held"}
              /\ fbWhere[fallback[fbFg][c]] = c
        BY <1>2, <1>5 DEF AInv, FallbackTable
    <2>. HIDE DEF FallbackInv
    <2>3. ASSUME NEW q \in FbRegs, fbStatus'[q] \in {"pending", "held"}
          PROVE  fbWhere[q] \in Keys /\ fallback'[fbBg][fbWhere[q]] = q
        <3>1. q # r
            BY <2>1, <2>3
        <3>2. fbWhere[q] \in Keys /\ fallback[fbFg][fbWhere[q]] = q
            BY <2>1, <2>3, <3>1 DEF AInv, FallbackInv, FallbackTable
        <3>3. fbWhere[q] # k
            BY <1>4, <3>1, <3>2
        <3>. QED
            BY <1>5, <3>2, <3>3
    <2>4. ASSUME NEW c \in Keys, fallback'[fbBg][c] # None
          PROVE  fbStatus'[fallback'[fbBg][c]] \in {"pending", "held"} /\ fbWhere[fallback'[fbBg][c]] = c
        <3>1. c # k /\ fallback'[fbBg][c] = fallback[fbFg][c] /\ fallback[fbFg][c] # None
            BY <1>5, <2>4
        <3>2. fallback[fbFg][c] # r
            BY <1>0, <2>2, <3>1
        <3>. QED
            BY <2>1, <2>2, <3>1, <3>2
    <2>5. \A q \in FbRegs : fbStatus'[q] = "closing" => q = r
        BY <1>1, <2>1, FbAssumption DEF AInv, FallbackInv, FallbackWriter
    <2>. QED
        BY <1>0, <1>1, <1>3, <1>5, <2>1, <2>2, <2>3, <2>4, <2>5 DEF FallbackTable
<1>9. FallbackReaders'
    BY <1>1, <1>4 DEF FallbackReaders
<1>10. \A u \in Threads : fbReading[u] # None => fallback'[fbReading[u]] = fallback[fbReading[u]]
    BY <1>2, <1>5
<1>. QED
    BY <1>1, <1>6, <1>7, <1>8, <1>9, <1>10, FallbackStep

LEMMA StepFinishFallback ==
    ASSUME AInv, NEW t \in Threads, FinishFallback(t)
    PROVE  AInv'
<1>. USE DEF FallbackInv
<1>0. PICK k, r : k = fbKey /\ r = fbReg
    OBVIOUS
<1>. DEFINE new == IF fbStatus[r] = "pending" THEN r ELSE None
            ends == IF fbStatus[r] = "pending" THEN "held" ELSE "free"
<1>1. /\ fbWriter # None /\ k \in Keys /\ r \in FbRegs /\ fbWhere[r] = k
      /\ fbStatus[r] \in {"pending", "closing"}
      /\ \A q \in FbRegs : fbStatus[q] \in {"pending", "closing"} => q = r
    BY <1>0, NoneAssumption DEF FinishFallback, AInv, FallbackWriter
<1>2. /\ fallback' = [fallback EXCEPT ![fbBg][k] = new]
      /\ hollow' = [hollow EXCEPT ![fbBg] =
            IF fbStatus[r] = "pending" /\ r \in Functors THEN @ \cup {k} ELSE @ \ {k}]
      /\ fbStatus' = [fbStatus EXCEPT ![r] = ends]
      /\ fbWhere' = [fbWhere EXCEPT ![r] = IF fbStatus[r] = "pending" THEN k ELSE None]
      /\ fbWriter' = None /\ fbKey' = None /\ fbReg' = None
      /\ UNCHANGED <<vars, callVars, fbFg, fbReading>>
    BY <1>0, <1>1 DEF FinishFallback
<1>3. /\ fbFg \in Insts /\ fbBg \in Insts /\ fbBg # fbFg /\ fbBg' = fbBg
      /\ \A u \in Threads : fbReading[u] # None => fbReading[u] = fbFg
    BY <1>2, BackgroundUnread DEF FinishFallback, fbBg
<1>4. new \in FbRegs \cup {None} /\ ends \in {"held", "free"} /\ None \notin FbRegs
    BY <1>1, FbAssumption
<1>5. /\ fallback \in [Insts -> [Keys -> FbRegs \cup {None}]]
      /\ fallback'[fbFg] = fallback[fbFg] /\ fallback'[fbBg][k] = new
      /\ \A c \in Keys : c # k => fallback'[fbBg][c] = fallback[fbFg][c]
    BY <1>0, <1>1, <1>2, <1>3 DEF AInv, FallbackTypes, FallbackTable
<1>6. /\ fbStatus'[r] = ends /\ fbWhere'[r] = (IF fbStatus[r] = "pending" THEN k ELSE None)
      /\ \A q \in FbRegs : q # r => fbStatus'[q] = fbStatus[q] /\ fbWhere'[q] = fbWhere[q]
    BY <1>1, <1>2 DEF AInv, FallbackTypes
<1>7. \A c \in Keys : fallback[fbFg][c] # None =>
          /\ fallback[fbFg][c] \in FbRegs /\ fbStatus[fallback[fbFg][c]] \in {"pending", "held"}
          /\ fbWhere[fallback[fbFg][c]] = c
    BY <1>3, <1>5 DEF AInv, FallbackTable
<1>8. /\ fbStatus[r] = "pending" => fallback[fbFg][k] = r
      /\ fbStatus[r] # "pending" => fallback[fbFg][k] = None
    <2>1. fbStatus[r] = "pending" => fallback[fbFg][k] = r
        BY <1>1 DEF AInv, FallbackTable
    <2>2. fbStatus[r] # "pending" => fallback[fbFg][k] = None
        BY <1>1 DEF AInv, FallbackTable
    <2>. QED
        BY <2>1, <2>2
<1>. HIDE DEF new, ends
<1>9. FallbackTypes'
    <2>1. fallback' \in [Insts -> [Keys -> FbRegs \cup {None}]]
        BY <1>1, <1>2, <1>3, <1>4, <1>5
    <2>2. /\ fbStatus' \in [FbRegs -> {"free", "pending", "held", "closing"}]
          /\ fbWhere' \in [FbRegs -> Keys \cup {None}]
        BY <1>1, <1>2, <1>4 DEF AInv, FallbackTypes
    <2>3. hollow' \in [Insts -> SUBSET Keys]
        BY <1>1, <1>2, <1>3 DEF AInv, FallbackTypes
    <2>. QED
        BY <1>1, <1>2, <1>3, <2>1, <2>2, <2>3 DEF AInv, FallbackTypes, callVars
<1>10. FallbackWriter'
    BY <1>1, <1>2, <1>4, <1>6 DEF FallbackWriter
<1>11. \A c \in Keys : fallback'[fbBg][c] = fallback[fbFg][c]
    BY <1>5, <1>8 DEF new
<1>12. FallbackTable'
    <2>1. \A c \in Keys : fallback[fbFg][c] # None =>
              fbStatus'[fallback[fbFg][c]] = "held" /\ fbWhere'[fallback[fbFg][c]] = c
        <3>. SUFFICES ASSUME NEW c \in Keys, fallback[fbFg][c] # None
                      PROVE  fbStatus'[fallback[fbFg][c]] = "held" /\ fbWhere'[fallback[fbFg][c]] = c
            OBVIOUS
        <3>1. CASE fallback[fbFg][c] = r
            BY <1>1, <1>6, <1>7, <3>1 DEF ends
        <3>2. CASE fallback[fbFg][c] # r
            BY <1>1, <1>6, <1>7, <3>2
        <3>. QED
            BY <3>1, <3>2
    <2>2. ASSUME NEW q \in FbRegs, fbStatus'[q] \in {"pending", "held"}
          PROVE  fbWhere'[q] \in Keys /\ fallback[fbFg][fbWhere'[q]] = q
        <3>1. CASE q = r
            BY <1>1, <1>6, <1>8, <2>2, <3>1 DEF ends
        <3>2. CASE q # r
            BY <1>6, <2>2, <3>2 DEF AInv, FallbackTable
        <3>. QED
            BY <3>1, <3>2
    <2>3. \A q \in FbRegs : fbStatus'[q] # "closing"
        BY <1>1, <1>6 DEF ends
    <2>. QED
        BY <1>2, <1>3, <1>5, <1>11, <2>1, <2>2, <2>3 DEF FallbackTable
<1>13. FallbackReaders'
    BY <1>2, <1>3, NoneAssumption DEF FallbackReaders, AInv, FallbackTypes
<1>14. \A u \in Threads : fbReading[u] # None => fallback'[fbReading[u]] = fallback[fbReading[u]]
    BY <1>3, <1>5
<1>. QED
    BY <1>2, <1>9, <1>10, <1>12, <1>13, <1>14, FallbackStep

-----------------------------------------------------------------------------
\* A call enters the two tables one after the other and leaves them together.
LEMMA StepCall ==
    ASSUME IInv, AInv, NEW t \in Threads,
           \/ \E k \in Keys \cup {NoKey} : BeginCall(t, k)
           \/ Dispatch(t) \/ DispatchFails(t) \/ EndCall(t)
    PROVE  AInv'
<1>. USE DEF FallbackInv
<1>1. UNCHANGED <<table, fallback, hollow, fbFg, fbWriter, fbKey, fbReg, fbStatus, fbWhere>>
    BY DEF BeginCall, BeginRead, Dispatch, DispatchFails, EndCall, EndRead, vars, fbVars
<1>2. reading \in [Threads -> Insts \cup {None}] /\ fg \in Insts /\ fbFg \in Insts
    BY DEF IInv, TypeOK, AInv, FallbackTypes
<1>3. \A u \in Threads \ {t} :
          /\ reading'[u] = reading[u] /\ fbReading'[u] = fbReading[u]
          /\ key'[u] = key[u] /\ runs'[u] = runs[u]
    BY <1>2 DEF BeginCall, BeginRead, Dispatch, DispatchFails, EndCall, EndRead, vars, fbVars,
                AInv, FallbackTypes
<1>4. ASSUME NEW k \in Keys \cup {NoKey}, BeginCall(t, k)
      PROVE  /\ reading'[t] # None /\ fbReading'[t] = None /\ runs'[t] = None /\ key'[t] = k
             /\ key' \in [Threads -> Keys \cup {NoKey, None}] /\ runs' = runs /\ fbReading' = fbReading
    <2>1. /\ reading[t] = None /\ reading' = [reading EXCEPT ![t] = fg]
          /\ key' = [key EXCEPT ![t] = k] /\ runs' = runs /\ fbReading' = fbReading
        BY <1>4 DEF BeginCall, BeginRead, fbVars
    <2>2. fbReading[t] = None /\ runs[t] = None
        BY <2>1 DEF AInv, CallHolds
    <2>. QED
        BY <1>2, <2>1, <2>2, NoneAssumption DEF AInv, FallbackTypes
<1>5. ASSUME Dispatch(t)
      PROVE  /\ reading'[t] # None /\ reading' = reading /\ key' = key
             /\ fbReading' = [fbReading EXCEPT ![t] = fbFg]
             /\ runs'[t] = Pick(reading[t], fbFg, key[t])
             /\ runs' = [runs EXCEPT ![t] = Pick(reading[t], fbFg, key[t])]
             /\ fbReading'[t] = fbFg /\ fbFg # None
    BY <1>2, <1>5, NoneAssumption DEF Dispatch, vars, AInv, FallbackTypes
<1>6. ASSUME DispatchFails(t) \/ EndCall(t)
      PROVE  /\ fbReading'[t] = None /\ runs'[t] = None /\ reading'[t] = None
             /\ key' = [key EXCEPT ![t] = None]
             /\ \/ runs' = runs /\ fbReading' = fbReading
                \/ runs' = [runs EXCEPT ![t] = None] /\ fbReading' = [fbReading EXCEPT ![t] = None]
    BY <1>2, <1>6 DEF DispatchFails, EndCall, EndRead, fbVars, AInv, FallbackTypes, CallHolds
<1>7. Dispatch(t) => Pick(reading[t], fbFg, key[t]) \in Regs \cup FbRegs \cup {None}
    <2>. SUFFICES ASSUME Dispatch(t)
                  PROVE  Pick(reading[t], fbFg, key[t]) \in Regs \cup FbRegs \cup {None}
        OBVIOUS
    <2>1. reading[t] \in Insts /\ key[t] \in Keys \cup {NoKey, None}
        BY <1>2 DEF Dispatch, AInv, FallbackTypes
    <2>3. key[t] \in Keys \cup {NoKey}
        BY DEF Dispatch, AInv, CallHolds
    <2>2. /\ table[reading[t]] \in [Slots -> Regs \cup {None}]
          /\ fallback[fbFg] \in [Keys -> FbRegs \cup {None}] /\ CatchAll \in Slots /\ Keys \subseteq Slots
        BY <1>2, <2>1 DEF IInv, TypeOK, AInv, FallbackTypes, Slots
    <2>. QED
        BY <2>1, <2>2, <2>3 DEF Pick
<1>8. FallbackTypes'
    <2>1. /\ key \in [Threads -> Keys \cup {NoKey, None}]
          /\ runs \in [Threads -> Regs \cup FbRegs \cup {None}]
          /\ fbReading \in [Threads -> Insts \cup {None}]
        BY DEF AInv, FallbackTypes
    <2>2. /\ key' \in [Threads -> Keys \cup {NoKey, None}]
          /\ runs' \in [Threads -> Regs \cup FbRegs \cup {None}]
          /\ fbReading' \in [Threads -> Insts \cup {None}]
        <3>1. CASE \E k \in Keys \cup {NoKey} : BeginCall(t, k)
            BY <1>4, <2>1, <3>1
        <3>2. CASE Dispatch(t)
            BY <1>2, <1>5, <1>7, <2>1, <3>2
        <3>3. CASE DispatchFails(t) \/ EndCall(t)
            BY <1>6, <2>1, <3>3
        <3>. QED
            BY <3>1, <3>2, <3>3
    <2>. QED
        BY <1>1, <2>2 DEF AInv, FallbackTypes
<1>9. FallbackWriter' /\ FallbackTable'
    BY <1>1 DEF AInv, FallbackWriter, FallbackTable, fbBg
<1>10. FallbackReaders'
    <2>1. fbBg' = fbBg /\ fbBg # fbFg /\ fbBg # None
        BY <1>1, <1>2, FbInstFacts, NoneAssumption DEF fbBg
    <2>2. fbReading'[t] \in {None, fbFg}
        BY <1>4, <1>5, <1>6
    <2>. QED
        BY <1>1, <1>3, <2>1, <2>2 DEF AInv, FallbackReaders
<1>11. CallHolds'
    BY <1>3, <1>4, <1>5, <1>6 DEF AInv, CallHolds
<1>12. PickStable'
    <2>. SUFFICES ASSUME NEW u \in Threads, runs'[u] # None
                  PROVE  (runs[u] = Pick(reading[u], fbReading[u], key[u]))'
        BY DEF PickStable
    <2>1. CASE u # t
        BY <1>1, <1>3, <2>1 DEF AInv, PickStable, Pick
    <2>2. CASE u = t
        <3>1. Dispatch(t)
            BY <1>4, <1>6, <2>2
        <3>. QED
            BY <1>1, <1>5, <2>2, <3>1 DEF Pick
    <2>. QED
        BY <2>1, <2>2
<1>. QED
    BY <1>8, <1>9, <1>10, <1>11, <1>12 DEF AInv

LEMMA NextAInv == IInv /\ AInv /\ [NextAll]_allVars => AInv'
<1>. SUFFICES ASSUME IInv, AInv, [NextAll]_allVars PROVE AInv'
    OBVIOUS
<1>1. CASE UNCHANGED allVars
    BY <1>1 DEF allVars, vars, fbVars, callVars, AInv, FallbackInv, FallbackTypes, FallbackWriter,
                FallbackTable, FallbackReaders, CallHolds, PickStable, Pick, fbBg
<1>2. CASE NextAll
    <2>1. ASSUME NEW t \in Threads, OperatorWrite(t) PROVE AInv'
        BY <2>1, StepOperator
    <2>2. ASSUME NEW t \in Threads, NEW r \in FbRegs, NEW k \in Keys,
                 RegisterFallback(t, r, k) \/ RejectFallback(t, r, k)
          PROVE  AInv'
        BY <2>2, StepRegisterFallback, StepRejectFallback
    <2>3. ASSUME NEW t \in Threads, NEW r \in FbRegs, DeregisterFallback(t, r) PROVE AInv'
        BY <2>3, StepDeregisterFallback
    <2>4. ASSUME NEW t \in Threads, FinishFallback(t) PROVE AInv'
        BY <2>4, StepFinishFallback
    <2>5. ASSUME NEW t \in Threads,
                 \/ \E k \in Keys \cup {NoKey} : BeginCall(t, k)
                 \/ Dispatch(t) \/ DispatchFails(t) \/ EndCall(t)
          PROVE  AInv'
        BY <2>5, StepCall
    <2>. QED
        BY <1>2, <2>1, <2>2, <2>3, <2>4, <2>5 DEF NextAll
<1>. QED
    BY <1>1, <1>2

-----------------------------------------------------------------------------
\* Calls and backend fallbacks leave the operator's own table to OperatorEntry:
\* what was proved of that module holds here.
THEOREM CallsKeepRegistry == SpecAll => Spec
<1>1. InitAll => Init
    BY DEF InitAll
<1>2. [NextAll]_allVars => [Next]_vars
    BY DEF NextAll, allVars, vars, fbVars, OperatorWrite, RegisterFallback, RejectFallback,
           DeregisterFallback, FlipFallback, FinishFallback, BeginCall, Dispatch, DispatchFails,
           EndCall, Next
<1>. QED
    BY <1>1, <1>2, PTL DEF SpecAll, Spec

\* AInv is an invariant of calls, registrations and fallbacks together.
THEOREM CallInvariance == SpecAll => []AInv
    BY CallsKeepRegistry, Invariance, AInvInit, NextAInv, PTL DEF SpecAll

\* The reference that dispatch_ returned stays valid and names the kernel of the
\* highest precedence in the instances the call holds.
THEOREM PicksAreStable == SpecAll => []PickStable
    BY CallInvariance, PTL DEF AInv

\* A kernel of either kind runs only while its registration lasts or is being
\* ended by a write that has not returned.
THEOREM OnlyLiveKernelsRun == SpecAll => []RunsOnlyLive
<1>1. IInv /\ AInv => TypeOKAll
    BY DEF IInv, AInv, FallbackInv, FallbackTypes, TypeOKAll
<1>2. ASSUME IInv, AInv, UnloadSafe, NEW t \in Threads, runs[t] # None
      PROVE  /\ runs[t] \in Regs => status[runs[t]] \in {"pending", "held", "closing"}
             /\ runs[t] \in FbRegs => fbStatus[runs[t]] \in {"pending", "held", "closing"}
    <2>1. /\ reading[t] \in Insts /\ fbReading[t] \in {fbFg, fbBg} /\ reading[t] # None
          /\ runs[t] = Pick(reading[t], fbReading[t], key[t]) /\ fbFg \in Insts /\ fbBg \in Insts
        BY <1>2, FbInstFacts DEF IInv, TypeOK, AInv, FallbackInv, FallbackTypes, CallHolds, PickStable
    <2>2. /\ table[reading[t]] \in [Slots -> Regs \cup {None}] /\ CatchAll \in Slots
          /\ fallback[fbReading[t]] \in [Keys -> FbRegs \cup {None}] /\ Keys \subseteq Slots
          /\ key[t] \in Keys \cup {NoKey, None}
        BY <1>2, <2>1 DEF IInv, TypeOK, AInv, FallbackInv, FallbackTypes, Slots
    <2>3. key[t] \in Keys \cup {NoKey}
        BY <1>2, <2>1 DEF AInv, CallHolds
    <2>4. \/ \E s \in Slots : runs[t] = table[reading[t]][s]
          \/ \E k \in Keys : runs[t] = fallback[fbReading[t]][k]
        BY <2>1, <2>2, <2>3 DEF Pick
    <2>5. CASE \E s \in Slots : runs[t] = table[reading[t]][s]
        <3>1. runs[t] \in Regs
            BY <1>2, <2>2, <2>5
        <3>. QED
            BY <1>2, <2>1, <2>5, <3>1, FbAssumption DEF UnloadSafe
    <2>6. CASE \E k \in Keys : runs[t] = fallback[fbReading[t]][k]
        <3>1. runs[t] \in FbRegs
            BY <1>2, <2>2, <2>6
        <3>2. fbStatus[runs[t]] \in {"pending", "held", "closing"}
            BY <1>2, <2>1, <2>6 DEF AInv, FallbackInv, FallbackTable
        <3>. QED
            BY <3>1, <3>2, FbAssumption
    <2>. QED
        BY <2>4, <2>5, <2>6
<1>3. IInv /\ AInv /\ UnloadSafe => RunsOnlyLive
    BY <1>1, <1>2, NoneAssumption, FbAssumption DEF RunsOnlyLive
<1>. QED
    BY <1>3, CallsKeepRegistry, Invariance, UnloadSafety, CallInvariance, PTL

\* Every handle of a fallback finds its entry in both instances, also after
\* refused registrations for its key.
THEOREM FallbackHandlesResolve == SpecAll => []FallbackHandleResolves
<1>1. AInv => FallbackHandleResolves
    <2>. SUFFICES ASSUME AInv, fbWriter = None, NEW r \in FbRegs, NEW i \in Insts, fbStatus[r] = "held"
                  PROVE  fallback[i][fbWhere[r]] = r
        BY DEF FallbackHandleResolves
    <2>1. fbKey = None /\ fbWhere[r] \in Keys /\ fallback[fbFg][fbWhere[r]] = r
        BY DEF AInv, FallbackInv, FallbackWriter, FallbackTable
    <2>2. fallback[fbBg][fbWhere[r]] = r
        BY <2>1, NoneAssumption DEF AInv, FallbackInv, FallbackTable, Slots
    <2>3. i = fbFg \/ i = fbBg
        BY FbInstFacts DEF AInv, FallbackInv, FallbackTypes
    <2>. QED
        BY <2>1, <2>2, <2>3
<1>. QED
    BY <1>1, CallInvariance, PTL
=============================================================================
