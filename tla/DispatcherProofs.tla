--------------------------- MODULE DispatcherProofs ---------------------------
(***************************************************************************)
(* For any libraries, plans, names and listeners: an operator is there as  *)
(* long as somebody holds a handle of it, listeners know of it, and the    *)
(* last handle finds the operator's table without kernels.                 *)
(***************************************************************************)
EXTENDS Dispatcher, SequenceLemmas, SequenceTheorems, FiniteSetTheorems, TLAPS

Entries == [name : Names, schema : Schemas, refcount : Nat]
Registrars == [op : Defs, kernel : Libs \X Nat]
Registered(l) == ToSet(registrars[l])

\* The types, also of what TypeOK leaves open.
Types ==
    /\ TypeOK
    /\ def \in [Defs -> Entries \cup {None}]
    /\ kernels \in [Defs -> SUBSET (Libs \X Nat)]
    /\ registrars \in [Libs -> Seq(Registrars)]
    /\ view \in [Listeners -> [Defs -> Int]]

\* Who changes the list of operators holds the mutex.
MutexInv == \A l \in Libs : mutex = l <=> pc[l] \in {"counting", "erasing"}

\* The operator d is what a registrar asked for.
Fits(d, asked) ==
    /\ d \in operators /\ def[d] \in Entries
    /\ def[d].name = asked.name /\ def[d].schema = asked.schema

\* A registrar's kernel tells which of the library's registrars it is; each
\* has its operator, and a library that is loading has only earlier ones.
RegistrarsOf(l) ==
    /\ IsInjective(registrars[l])
    /\ \A r \in Registered(l) :
          /\ r.kernel[1] = l /\ r.kernel[2] \in 1..Len(Plan[l])
          /\ Fits(r.op, Plan[l][r.kernel[2]])
    /\ \A r, u \in Registered(l) : r.kernel[2] = u.kernel[2] => r = u
    /\ pc[l] = "out" => registrars[l] = <<>>
    /\ pc[l] \in {"loading", "counting", "kernel"} =>
          /\ Len(registrars[l]) <= Len(Plan[l])
          /\ pc[l] # "loading" => Len(registrars[l]) < Len(Plan[l])
          /\ \A r \in Registered(l) : r.kernel[2] <= Len(registrars[l])

\* The operator a library is working on.
CurrentOf(l) ==
    /\ pc[l] \in {"counting", "kernel"} => Fits(cur[l], Step(l))
    /\ pc[l] = "releasing" => cur[l] \in operators
    /\ pc[l] = "erasing" => /\ cur[l] \in Defs \ operators /\ def[cur[l]] \in Entries
                            /\ lookup[def[cur[l]].name] = cur[l]

\* An operator is counted right and found; it has no handle only while its
\* first one is made.
OperatorInv ==
    \A d \in operators :
        /\ def[d] \in Entries /\ lookup[def[d].name] = d
        /\ IsFiniteSet(Handles(d)) /\ def[d].refcount = Cardinality(Handles(d))
        /\ def[d].refcount = 0 => \E l \in Libs : pc[l] = "counting" /\ cur[l] = d

\* What a name leads to is registered, or just being erased.
LookupInv ==
    \A n \in Names : lookup[n] # None =>
        /\ def[lookup[n]] \in Entries /\ def[lookup[n]].name = n
        /\ lookup[n] \in operators \/ \E l \in Libs : pc[l] = "erasing" /\ cur[l] = lookup[n]

\* A kernel in a table belongs to a registrar.
KernelInv ==
    \A d \in Defs : \A k \in kernels[d] :
        \E l \in Libs : \E r \in Registered(l) : r.op = d /\ r.kernel = k

ViewInv ==
    \A x \in Listeners : \A d \in Defs :
        view[x][d] = IF x \in attached /\ d \in operators /\ def[d].refcount > 0 THEN 1 ELSE 0

DispatcherInv ==
    /\ Types /\ MutexInv
    /\ \A l \in Libs : RegistrarsOf(l) /\ CurrentOf(l)
    /\ OperatorInv /\ LookupInv /\ KernelInv /\ ViewInv

-----------------------------------------------------------------------------
\* A handle tells the library that holds it.
LEMMA HandlesTellLibrary ==
    ASSUME DispatcherInv, NEW l \in Libs, NEW d, NEW h \in HandlesOf(l, d)
    PROVE  h[1] = l
    BY DEF DispatcherInv, RegistrarsOf, HandlesOf, Registered

\* A step that changes neither registrars nor who is between registerSchema
\* and the end of a registrar leaves all handles alone.
LEMMA HandlesSame ==
    ASSUME registrars' = registrars,
           \A u \in Libs : \/ pc'[u] = pc[u] /\ cur'[u] = cur[u]
                           \/ /\ pc[u] = "kernel" /\ pc'[u] = "releasing"
                              /\ cur'[u] = cur[u]
                           \/ /\ pc[u] \notin {"kernel", "releasing"}
                              /\ pc'[u] \notin {"kernel", "releasing"}
    PROVE  \A d : Handles(d)' = Handles(d)
<1>1. \A u \in Libs : \A d : HandlesOf(u, d)' = HandlesOf(u, d)
    BY DEF HandlesOf
<1>. QED
    BY <1>1 DEF Handles

\* Whoever holds a handle, its operator is there.
LEMMA InvKeepsHandles ==
    ASSUME DispatcherInv, NEW d, Handles(d) # {}
    PROVE  d \in operators
<1>1. PICK l \in Libs : HandlesOf(l, d) # {}
    BY DEF Handles
<1>2. CASE pc[l] \in {"kernel", "releasing"} /\ cur[l] = d
    BY <1>2 DEF DispatcherInv, CurrentOf, Fits
<1>3. CASE \E r \in Registered(l) : r.op = d
    BY <1>3 DEF DispatcherInv, RegistrarsOf, Fits
<1>. QED
    BY <1>1, <1>2, <1>3 DEF HandlesOf, Registered

\* The invariant gives what the runs check.
LEMMA InvGivesProperties ==
    DispatcherInv => HandlesOwnOperators /\ ListenersKnow
<1>. SUFFICES ASSUME DispatcherInv PROVE HandlesOwnOperators /\ ListenersKnow
    OBVIOUS
<1>1. Types /\ \A l \in Libs : RegistrarsOf(l)
    BY DEF DispatcherInv
<1>2. HoldersFind
    <2>1. ASSUME NEW l \in Libs, NEW i \in DOMAIN registrars[l]
          PROVE  Fits(registrars[l][i].op, Plan[l][registrars[l][i].kernel[2]])
                 /\ lookup[def[registrars[l][i].op].name] = registrars[l][i].op
        <3>1. registrars[l][i] \in Registered(l)
            BY DEF Registered, ToSet
        <3>2. Fits(registrars[l][i].op, Plan[l][registrars[l][i].kernel[2]])
            BY <1>1, <3>1 DEF RegistrarsOf
        <3>. QED
            BY <3>2 DEF Fits, DispatcherInv, OperatorInv
    <2>. QED
        BY <2>1 DEF HoldersFind, Fits
<1>3. ASSUME mutex = None, NEW l \in Libs
      PROVE  pc[l] \notin {"counting", "erasing"}
    BY <1>3, DefsAssumption DEF DispatcherInv, MutexInv
<1>4. ASSUME mutex = None
      PROVE  /\ \A d \in operators : /\ def[d].refcount = Cardinality(Handles(d))
                                     /\ lookup[def[d].name] = d
                                     /\ def[d].refcount > 0 /\ Handles(d) # {}
             /\ \A n \in Names : lookup[n] # None => lookup[n] \in operators /\ def[lookup[n]].name = n
    <2>1. ASSUME NEW d \in operators
          PROVE  def[d].refcount = Cardinality(Handles(d)) /\ def[d].refcount > 0 /\ Handles(d) # {}
        <3>1. /\ def[d] \in Entries /\ def[d].refcount = Cardinality(Handles(d)) /\ def[d].refcount # 0
            BY <1>3, <1>4 DEF DispatcherInv, OperatorInv
        <3>2. def[d].refcount \in Nat
            BY <3>1 DEF Entries
        <3>. QED
            BY <3>1, <3>2, FS_EmptySet
    <2>. QED
        BY <1>3, <1>4, <2>1 DEF DispatcherInv, OperatorInv, LookupInv
<1>5. \A d : Handles(d) # {} => d \in operators
    BY InvKeepsHandles
<1>6. HandlesOwnOperators
    BY <1>1, <1>2, <1>4, <1>5 DEF HandlesOwnOperators, Types
<1>7. ListenersKnow
    <2>1. attached \subseteq Listeners
        BY <1>1 DEF Types, TypeOK
    <2>. QED
        BY <1>4, <2>1 DEF ListenersKnow, DispatcherInv, ViewInv
<1>. QED
    BY <1>6, <1>7

\* At the start there are no operators and no handles.
LEMMA DispatcherInit == Init => DispatcherInv
<1>. SUFFICES ASSUME Init PROVE DispatcherInv
    OBVIOUS
<1>1. Types
    BY DefsAssumption DEF Init, Types, TypeOK
<1>2. MutexInv
    BY DefsAssumption DEF Init, MutexInv
<1>3. \A l \in Libs : RegistrarsOf(l) /\ CurrentOf(l)
    BY DEF Init, RegistrarsOf, CurrentOf, Registered, ToSet, IsInjective
<1>4. OperatorInv /\ LookupInv /\ KernelInv /\ ViewInv
    BY DEF Init, OperatorInv, LookupInv, KernelInv, ViewInv
<1>. QED
    BY <1>1, <1>2, <1>3, <1>4 DEF DispatcherInv

\* A library that does not step keeps its part of the invariant, if none of
\* its operators goes or becomes another one.
LEMMA OthersKeep ==
    ASSUME DispatcherInv, NEW u \in Libs, NEW gone,
           registrars'[u] = registrars[u], pc'[u] = pc[u], cur'[u] = cur[u],
           \A d \in operators \ gone :
              /\ d \in operators' /\ def'[d] \in Entries
              /\ def'[d].name = def[d].name /\ def'[d].schema = def[d].schema,
           \A r \in Registered(u) : r.op \notin gone,
           pc[u] \in {"counting", "kernel", "releasing"} => cur[u] \notin gone,
           pc[u] = "erasing" =>
              cur[u] \notin operators' /\ def'[cur[u]] = def[cur[u]] /\ lookup' = lookup
    PROVE  RegistrarsOf(u)' /\ CurrentOf(u)'
<1>1. RegistrarsOf(u) /\ CurrentOf(u)
    BY DEF DispatcherInv
<1>2. ASSUME NEW d \in operators \ gone, NEW asked, Fits(d, asked)
      PROVE  Fits(d, asked)'
    BY <1>2 DEF Fits
<1>3. Registered(u)' = Registered(u) /\ Step(u)' = Step(u)
    BY DEF Registered, Step
<1>4. RegistrarsOf(u)'
    <2>1. \A r \in Registered(u) : Fits(r.op, Plan[u][r.kernel[2]])'
        BY <1>1, <1>2 DEF RegistrarsOf, Fits
    <2>. QED
        BY <1>1, <1>3, <2>1 DEF RegistrarsOf
<1>5. CurrentOf(u)'
    <2>1. pc[u] \in {"counting", "kernel"} => Fits(cur[u], Step(u))'
        BY <1>1, <1>3 DEF CurrentOf, Fits
    <2>2. pc[u] = "releasing" => cur[u] \in operators'
        BY <1>1 DEF CurrentOf
    <2>3. pc[u] = "erasing" => /\ cur[u] \in Defs \ operators' /\ def'[cur[u]] \in Entries
                              /\ lookup'[def'[cur[u]].name] = cur[u]
        BY <1>1 DEF CurrentOf
    <2>. QED
        BY <1>3, <2>1, <2>2, <2>3 DEF CurrentOf, Fits
<1>. QED
    BY <1>4, <1>5

\* The same for a step that removes no operator.
LEMMA OthersStay ==
    ASSUME DispatcherInv, NEW u \in Libs,
           registrars'[u] = registrars[u], pc'[u] = pc[u], cur'[u] = cur[u],
           \A d \in operators :
              /\ d \in operators' /\ def'[d] \in Entries
              /\ def'[d].name = def[d].name /\ def'[d].schema = def[d].schema,
           pc[u] = "erasing" =>
              cur[u] \notin operators' /\ def'[cur[u]] = def[cur[u]] /\ lookup' = lookup
    PROVE  RegistrarsOf(u)' /\ CurrentOf(u)'
<1>. DEFINE gone == {}
<1>1. /\ operators \ gone = operators
      /\ \A r \in Registered(u) : r.op \notin gone
      /\ cur[u] \notin gone
    OBVIOUS
<1>. HIDE DEF gone
<1>. QED
    BY <1>1, OthersKeep

\* Loading and unloading begin and end, also by the refusal of a schema: only
\* the library's own place changes.
LEMMA MovesInv ==
    ASSUME DispatcherInv, NEW l \in Libs,
           StartLoad(l) \/ RejectSchema(l) \/ Loaded(l) \/ StartUnload(l) \/ Unloaded(l)
    PROVE  DispatcherInv'
<1>1. /\ pc[l] \in {"out", "loading", "in", "unloading"}
      /\ pc'[l] \in {"out", "loading", "in", "unloading"}
      /\ \A u \in Libs \ {l} : pc'[u] = pc[u]
      /\ pc'[l] = "out" => registrars[l] = <<>>
      /\ pc'[l] = "loading" => registrars[l] = <<>>
      /\ UNCHANGED <<operators, def, kernels, lookup, mutex, cur, registrars,
                     attached, view>>
    BY DEF StartLoad, RejectSchema, Loaded, StartUnload, Unloaded, Goto, DispatcherInv, Types, TypeOK,
           RegistrarsOf
<1>2. Types'
    <2>1. loads' \in [Libs -> 0..MaxLoads]
        <3>1. loads \in [Libs -> 0..MaxLoads] /\ MaxLoads \in Nat
            BY DefsAssumption DEF DispatcherInv, Types, TypeOK
        <3>2. CASE StartLoad(l)
            BY <3>1, <3>2 DEF StartLoad
        <3>3. CASE ~StartLoad(l)
            BY <3>1, <3>3 DEF RejectSchema, Loaded, StartUnload, Unloaded
        <3>. QED
            BY <3>2, <3>3
    <2>2. pc' \in [Libs -> {"out", "loading", "counting", "kernel", "in", "unloading", "releasing", "erasing"}]
        BY DEF StartLoad, RejectSchema, Loaded, StartUnload, Unloaded, Goto, DispatcherInv, Types, TypeOK
    <2>. QED
        BY <1>1, <2>1, <2>2 DEF DispatcherInv, Types, TypeOK
<1>3. MutexInv'
    BY <1>1 DEF DispatcherInv, MutexInv
<1>4. ASSUME NEW u \in Libs PROVE RegistrarsOf(u)' /\ CurrentOf(u)'
    <2>1. CASE u = l
        <3>1. Registered(l)' = Registered(l) /\ RegistrarsOf(l)
            BY <1>1 DEF Registered, DispatcherInv
        <3>2. \A d : \A asked : Fits(d, asked)' <=> Fits(d, asked)
            BY <1>1 DEF Fits
        <3>3. pc'[l] = "loading" => Len(registrars[l]) = 0 /\ Registered(l) = {} /\ Len(Plan[l]) \in Nat
            BY <1>1, PlanAssumption DEF Registered, ToSet
        <3>. QED
            BY <1>1, <2>1, <3>1, <3>2, <3>3 DEF RegistrarsOf, CurrentOf
    <2>2. CASE u # l
        <3>1. \A d \in operators : def[d] \in Entries
            BY DEF DispatcherInv, OperatorInv
        <3>. QED
            BY <1>1, <2>2, <3>1, OthersStay DEF DispatcherInv, CurrentOf
    <2>. QED
        BY <2>1, <2>2
<1>5. \A d : Handles(d)' = Handles(d)
    BY <1>1, HandlesSame
<1>6. OperatorInv'
    BY <1>1, <1>5 DEF DispatcherInv, OperatorInv
<1>7. LookupInv'
    BY <1>1 DEF DispatcherInv, LookupInv
<1>8. KernelInv' /\ ViewInv'
    BY <1>1 DEF DispatcherInv, KernelInv, ViewInv, Registered
<1>. QED
    BY <1>2, <1>3, <1>4, <1>6, <1>7, <1>8 DEF DispatcherInv

\* A listener is attached while nobody is between two states of the list.
LEMMA AddListenerInv ==
    ASSUME DispatcherInv, NEW x \in Listeners, AddListener(x)
    PROVE  DispatcherInv'
<1>1. /\ x \notin attached /\ mutex = None /\ attached' = attached \cup {x}
      /\ view' = [view EXCEPT ![x] = [d \in Defs |-> IF d \in operators THEN @[d] + 1 ELSE @[d]]]
      /\ UNCHANGED <<operators, def, kernels, lookup, mutex, pc, cur, registrars, loads>>
    BY DEF AddListener
<1>2. \A d \in operators : def[d].refcount > 0 /\ d \in Defs
    <2>1. \A l \in Libs : pc[l] # "counting"
        BY <1>1, DefsAssumption DEF DispatcherInv, MutexInv
    <2>2. \A d \in operators : def[d].refcount # 0 /\ def[d].refcount \in Nat /\ d \in Defs
        BY <2>1 DEF DispatcherInv, OperatorInv, Entries, Types, TypeOK
    <2>. QED
        BY <2>2
<1>3. view \in [Listeners -> [Defs -> Int]] /\ ViewInv
    BY DEF DispatcherInv, Types
<1>4. view' \in [Listeners -> [Defs -> Int]] /\ \A y \in Listeners : \A d \in Defs :
         view'[y][d] = IF y = x /\ d \in operators THEN view[y][d] + 1 ELSE view[y][d]
    BY <1>1, <1>3
<1>5. ViewInv'
    BY <1>1, <1>2, <1>3, <1>4 DEF ViewInv
<1>6. Types'
    BY <1>1, <1>4 DEF DispatcherInv, Types, TypeOK
<1>7. ASSUME NEW u \in Libs PROVE RegistrarsOf(u)' /\ CurrentOf(u)'
    <2>1. \A d \in operators : def[d] \in Entries
        BY DEF DispatcherInv, OperatorInv
    <2>. QED
        BY <1>1, <2>1, OthersStay DEF DispatcherInv, CurrentOf
<1>8. \A d : Handles(d)' = Handles(d)
    BY <1>1, HandlesSame
<1>9. OperatorInv' /\ LookupInv'
    BY <1>1, <1>8 DEF DispatcherInv, OperatorInv, LookupInv
<1>. QED
    BY <1>1, <1>5, <1>6, <1>7, <1>9
    DEF DispatcherInv, MutexInv, KernelInv, Registered

\* The registrar a library constructs next is one of its plan.
LEMMA NextStep ==
    ASSUME Types, NEW l \in Libs, Len(registrars[l]) < Len(Plan[l])
    PROVE  /\ Len(registrars[l]) + 1 \in 1..Len(Plan[l])
           /\ Step(l).name \in Names /\ Step(l).schema \in Schemas
<1>. DEFINE Asked == [name : Names, schema : Schemas, kernel : {"none", "valid", "undefined"}]
            q == Plan[l]
<1>1. q \in Seq(Asked)
    BY PlanAssumption
<1>2. registrars[l] \in Seq(Registrars)
    BY DEF Types
<1>3. Len(q) \in Nat /\ Len(registrars[l]) \in Nat
    BY <1>1, <1>2, LenProperties
<1>4. Len(registrars[l]) + 1 \in 1..Len(q)
    BY <1>3
<1>5. q[Len(registrars[l]) + 1] \in Asked
    <2>. HIDE DEF q, Asked
    <2>. QED
        BY <1>1, <1>4, ElementOfSeq
<1>. QED
    BY <1>4, <1>5 DEF Step

\* registerSchema finds the operator: the name leads to it, since nobody is
\* erasing it.
LEMMA FindSchemaInv ==
    ASSUME DispatcherInv, NEW l \in Libs, FindSchema(l)
    PROVE  DispatcherInv'
<1>. DEFINE d == lookup[Step(l).name]
<1>1. /\ pc[l] = "loading" /\ mutex = None /\ mutex' = l
      /\ Len(registrars[l]) < Len(Plan[l])
      /\ d # None /\ def[d].schema = Step(l).schema
      /\ pc' = [pc EXCEPT ![l] = "counting"] /\ cur' = [cur EXCEPT ![l] = d]
      /\ UNCHANGED <<operators, def, kernels, lookup, registrars, loads, attached, view>>
    BY DEF FindSchema, Goto
<1>2. Types /\ MutexInv /\ LookupInv /\ OperatorInv
    BY DEF DispatcherInv
<1>3. Step(l).name \in Names
    BY <1>1, <1>2, NextStep
<1>4. /\ pc'[l] = "counting" /\ cur'[l] = d
      /\ \A u \in Libs \ {l} : pc'[u] = pc[u] /\ cur'[u] = cur[u]
    BY <1>1, <1>2 DEF Types, TypeOK
<1>5. \A u \in Libs : pc[u] \notin {"counting", "erasing"}
    BY <1>1, <1>2, DefsAssumption DEF MutexInv
<1>6. Fits(d, Step(l))
    BY <1>1, <1>2, <1>3, <1>5 DEF LookupInv, Fits
<1>. HIDE DEF d
<1>7. Types'
    <2>1. d \in Defs
        BY <1>2, <1>6 DEF Fits, Types, TypeOK
    <2>. QED
        BY <1>1, <1>2, <2>1 DEF Types, TypeOK
<1>8. MutexInv'
    BY <1>1, <1>4, <1>5 DEF MutexInv
<1>9. ASSUME NEW u \in Libs PROVE RegistrarsOf(u)' /\ CurrentOf(u)'
    <2>1. CASE u = l
        <3>1. Registered(l)' = Registered(l) /\ Step(l)' = Step(l) /\ RegistrarsOf(l)
            BY <1>1 DEF Registered, Step, DispatcherInv
        <3>. QED
            BY <1>1, <1>4, <1>6, <2>1, <3>1 DEF RegistrarsOf, CurrentOf, Fits
    <2>2. CASE u # l
        <3>1. \A e \in operators : def[e] \in Entries
            BY <1>2 DEF OperatorInv
        <3>. QED
            BY <1>1, <1>4, <1>5, <2>2, <3>1, OthersStay
    <2>. QED
        BY <2>1, <2>2
<1>10. \A e : Handles(e)' = Handles(e)
    BY <1>1, <1>4, HandlesSame
<1>11. OperatorInv' /\ LookupInv'
    BY <1>1, <1>2, <1>5, <1>10 DEF OperatorInv, LookupInv
<1>12. KernelInv' /\ ViewInv'
    BY <1>1 DEF DispatcherInv, KernelInv, ViewInv, Registered
<1>. QED
    BY <1>7, <1>8, <1>9, <1>11, <1>12 DEF DispatcherInv

\* ... or adds it, still without a handle.
LEMMA AddSchemaInv ==
    ASSUME DispatcherInv, NEW l \in Libs, AddSchema(l)
    PROVE  DispatcherInv'
<1>. DEFINE asked == Step(l)
            entry == [name |-> asked.name, schema |-> asked.schema, refcount |-> 0]
<1>1. PICK d \in Defs \ operators :
         /\ operators' = operators \cup {d}
         /\ def' = [def EXCEPT ![d] = entry]
         /\ lookup' = [lookup EXCEPT ![asked.name] = d]
         /\ cur' = [cur EXCEPT ![l] = d]
    BY DEF AddSchema
<1>2. /\ pc[l] = "loading" /\ mutex = None /\ mutex' = l
      /\ Len(registrars[l]) < Len(Plan[l]) /\ lookup[asked.name] = None
      /\ pc' = [pc EXCEPT ![l] = "counting"]
      /\ UNCHANGED <<kernels, registrars, loads, attached, view>>
    BY DEF AddSchema, Goto
<1>3. Types /\ MutexInv /\ LookupInv /\ OperatorInv /\ KernelInv /\ ViewInv
    BY DEF DispatcherInv
<1>4. asked.name \in Names /\ asked.schema \in Schemas
    BY <1>2, <1>3, NextStep
<1>5. /\ pc'[l] = "counting" /\ cur'[l] = d
      /\ \A u \in Libs \ {l} : pc'[u] = pc[u] /\ cur'[u] = cur[u]
    BY <1>1, <1>2, <1>3 DEF Types, TypeOK
<1>6. \A u \in Libs : pc[u] \notin {"counting", "erasing"}
    BY <1>2, <1>3, DefsAssumption DEF MutexInv
<1>7. entry \in Entries /\ entry.name = asked.name /\ entry.schema = asked.schema /\ entry.refcount = 0
    BY <1>4 DEF Entries
<1>8. /\ def'[d] = entry /\ \A e \in Defs \ {d} : def'[e] = def[e]
      /\ lookup'[asked.name] = d /\ \A n \in Names \ {asked.name} : lookup'[n] = lookup[n]
      /\ d \in operators' /\ operators \subseteq Defs
    BY <1>1, <1>3, <1>4 DEF Types, TypeOK
<1>. HIDE DEF asked, entry
<1>9. Types'
    <2>1. /\ operators' \subseteq Defs /\ lookup' \in [Names -> Defs \cup {None}]
          /\ pc' \in [Libs -> {"out", "loading", "counting", "kernel", "in", "unloading", "releasing", "erasing"}]
          /\ cur' \in [Libs -> Defs \cup {None}] /\ mutex' \in Libs \cup {None}
        BY <1>1, <1>2, <1>3 DEF Types, TypeOK
    <2>2. def' \in [Defs -> Entries \cup {None}]
        BY <1>1, <1>3, <1>7 DEF Types
    <2>3. \A e \in Defs : def'[e] = None \/ def'[e] \in [name : Names, schema : Schemas, refcount : Nat]
        BY <2>2 DEF Entries
    <2>. QED
        BY <1>2, <1>3, <2>1, <2>2, <2>3 DEF Types, TypeOK
<1>10. MutexInv'
    BY <1>2, <1>5, <1>6 DEF MutexInv
<1>11. ASSUME NEW u \in Libs PROVE RegistrarsOf(u)' /\ CurrentOf(u)'
    <2>0. \A e \in operators : /\ e \in operators' /\ e # d /\ def'[e] = def[e] /\ def[e] \in Entries
        BY <1>1, <1>3, <1>8 DEF OperatorInv
    <2>1. CASE u = l
        <3>1. Registered(l)' = Registered(l) /\ RegistrarsOf(l)
            BY <1>2 DEF Registered, DispatcherInv
        <3>2. Fits(d, Step(l))'
            <4>1. Step(l)' = asked
                BY <1>2 DEF Step, asked
            <4>. QED
                BY <1>7, <1>8, <4>1 DEF Fits
        <3>3. \A r \in Registered(l) : Fits(r.op, Plan[l][r.kernel[2]])'
            BY <2>0, <3>1 DEF RegistrarsOf, Fits
        <3>. QED
            BY <1>2, <1>5, <2>1, <3>1, <3>2, <3>3 DEF RegistrarsOf, CurrentOf
    <2>2. CASE u # l
        BY <1>2, <1>5, <1>6, <2>0, <2>2, OthersStay
    <2>. QED
        BY <2>1, <2>2
<1>12. \A e : Handles(e)' = Handles(e)
    BY <1>2, <1>5, HandlesSame
<1>13. Handles(d) = {}
    BY <1>1, InvKeepsHandles
<1>14. OperatorInv'
    <2>1. IsFiniteSet({}) /\ Cardinality({}) = 0
        BY FS_EmptySet
    <2>2. ASSUME NEW e \in operators
          PROVE  /\ def'[e] \in Entries /\ lookup'[def'[e].name] = e
                 /\ IsFiniteSet(Handles(e)) /\ def'[e].refcount = Cardinality(Handles(e))
                 /\ def'[e].refcount # 0
        <3>1. /\ def[e] \in Entries /\ lookup[def[e].name] = e /\ e \in Defs /\ e # d
              /\ IsFiniteSet(Handles(e)) /\ def[e].refcount = Cardinality(Handles(e))
              /\ def[e].refcount # 0
            BY <1>1, <1>3, <1>6 DEF OperatorInv, Types, TypeOK
        <3>2. def[e].name \in Names /\ def[e].name # asked.name
            BY <1>2, <1>3, <3>1, DefsAssumption DEF Entries
        <3>. QED
            BY <1>8, <3>1, <3>2
    <2>. QED
        <3>1. ASSUME NEW e \in operators'
              PROVE  /\ def'[e] \in Entries /\ lookup'[def'[e].name] = e
                     /\ IsFiniteSet(Handles(e)') /\ def'[e].refcount = Cardinality(Handles(e)')
                     /\ def'[e].refcount = 0 => \E u \in Libs : pc'[u] = "counting" /\ cur'[u] = e
            <4>1. CASE e = d
                <5>1. Handles(e)' = {}
                    BY <4>1, <1>12, <1>13
                <5>. QED
                    BY <4>1, <5>1, <1>5, <1>7, <1>8, <2>1
            <4>2. CASE e \in operators
                BY <4>2, <1>12, <2>2
            <4>. QED
                BY <4>1, <4>2, <1>1
        <3>. QED
            BY <3>1 DEF OperatorInv
<1>15. LookupInv'
    <2>1. ASSUME NEW n \in Names, lookup'[n] # None
          PROVE  /\ def'[lookup'[n]] \in Entries /\ def'[lookup'[n]].name = n
                 /\ lookup'[n] \in operators'
        <3>1. CASE n = asked.name
            BY <1>7, <1>8, <3>1
        <3>2. CASE n # asked.name
            <4>1. lookup[n] \in operators /\ def[lookup[n]] \in Entries /\ def[lookup[n]].name = n
                BY <1>3, <1>6, <1>8, <2>1, <3>2 DEF LookupInv
            <4>. QED
                BY <1>1, <1>8, <3>2, <4>1
        <3>. QED
            BY <3>1, <3>2
    <2>. QED
        BY <2>1 DEF LookupInv
<1>16. KernelInv'
    BY <1>2 DEF DispatcherInv, KernelInv, Registered
<1>17. ViewInv'
    BY <1>1, <1>2, <1>3, <1>7, <1>8 DEF ViewInv
<1>. QED
    BY <1>9, <1>10, <1>11, <1>14, <1>15, <1>16, <1>17 DEF DispatcherInv

\* What only library l does leaves the handles of the others alone.
OnlyLib(l) ==
    \A u \in Libs \ {l} : registrars'[u] = registrars[u] /\ pc'[u] = pc[u] /\ cur'[u] = cur[u]

LEMMA LibHandles ==
    ASSUME DispatcherInv, NEW l \in Libs, OnlyLib(l)
    PROVE  \A d, h :
              /\ HandlesOf(l, d)' = HandlesOf(l, d) => Handles(d)' = Handles(d)
              /\ HandlesOf(l, d)' = HandlesOf(l, d) \cup {h} => Handles(d)' = Handles(d) \cup {h}
              /\ h[1] = l /\ HandlesOf(l, d)' = HandlesOf(l, d) \ {h}
                    => Handles(d)' = Handles(d) \ {h}
<1>1. \A u \in Libs \ {l} : \A d : HandlesOf(u, d)' = HandlesOf(u, d)
    BY DEF HandlesOf, OnlyLib
<1>2. \A u \in Libs \ {l} : \A d, h : h[1] = l => h \notin HandlesOf(u, d)
    BY HandlesTellLibrary
<1>3. ASSUME NEW d, NEW h, HandlesOf(l, d)' = HandlesOf(l, d)
      PROVE  Handles(d)' = Handles(d)
    BY <1>1, <1>3 DEF Handles
<1>4. ASSUME NEW d, NEW h, HandlesOf(l, d)' = HandlesOf(l, d) \cup {h}
      PROVE  Handles(d)' = Handles(d) \cup {h}
    BY <1>1, <1>4 DEF Handles
<1>5. ASSUME NEW d, NEW h, h[1] = l, HandlesOf(l, d)' = HandlesOf(l, d) \ {h}
      PROVE  Handles(d)' = Handles(d) \ {h}
    BY <1>1, <1>2, <1>5 DEF Handles
<1>. QED
    BY <1>3, <1>4, <1>5

\* Replacing an element keeps the number of elements.
LEMMA SwapElement ==
    ASSUME NEW S, NEW a \in S, NEW b, b \notin S, IsFiniteSet(S)
    PROVE  /\ IsFiniteSet((S \ {a}) \cup {b})
           /\ Cardinality((S \ {a}) \cup {b}) = Cardinality(S)
<1>1. IsFiniteSet(S \ {a}) /\ Cardinality(S \ {a}) = Cardinality(S) - 1 /\ Cardinality(S) \in Nat
    BY FS_RemoveElement, FS_CardinalityType
<1>2. /\ IsFiniteSet((S \ {a}) \cup {b})
      /\ Cardinality((S \ {a}) \cup {b}) = Cardinality(S \ {a}) + 1
    BY <1>1, FS_AddElement
<1>. QED
    BY <1>1, <1>2

\* A library between registerSchema and the end of the registrar holds a
\* handle of its own; otherwise it does not.
LEMMA OwnHandle ==
    ASSUME DispatcherInv, NEW l \in Libs, NEW d
    PROVE  <<l, 0>> \in Handles(d) <=> pc[l] \in {"kernel", "releasing"} /\ cur[l] = d
<1>1. ASSUME <<l, 0>> \in Handles(d) PROVE <<l, 0>> \in HandlesOf(l, d)
    <2>1. PICK u \in Libs : <<l, 0>> \in HandlesOf(u, d)
        BY <1>1 DEF Handles
    <2>2. u = l
        <3>1. <<l, 0>>[1] = u
            BY <2>1, HandlesTellLibrary
        <3>. QED
            BY <3>1
    <2>. QED
        BY <2>1, <2>2
<1>2. \A r \in Registered(l) : r.kernel # <<l, 0>>
    <2>1. \A r \in Registered(l) : r.kernel[2] \in 1..Len(Plan[l])
        BY DEF DispatcherInv, RegistrarsOf
    <2>. QED
        BY <2>1
<1>3. <<l, 0>> \in HandlesOf(l, d) <=> pc[l] \in {"kernel", "releasing"} /\ cur[l] = d
    BY <1>2 DEF HandlesOf, Registered
<1>. QED
    BY <1>1, <1>3 DEF Handles

\* The library inside the mutex is the only one.
LEMMA OnlyHolder ==
    ASSUME DispatcherInv, NEW l \in Libs, pc[l] \in {"counting", "erasing"}
    PROVE  mutex = l /\ \A u \in Libs \ {l} : pc[u] \notin {"counting", "erasing"}
    BY DEF DispatcherInv, MutexInv

\* Without it there is none.
LEMMA NoHolder ==
    ASSUME DispatcherInv, mutex = None
    PROVE  \A u \in Libs : pc[u] \notin {"counting", "erasing"}
    BY DefsAssumption DEF DispatcherInv, MutexInv

\* What setting a count does to the definitions.
LEMMA SetRefcountFacts ==
    ASSUME Types, NEW d \in Defs, def[d] \in Entries, NEW n \in Nat, SetRefcount(d, n)
    PROVE  /\ def' \in [Defs -> Entries \cup {None}]
           /\ def'[d] \in Entries /\ def'[d].name = def[d].name
           /\ def'[d].schema = def[d].schema /\ def'[d].refcount = n
           /\ \A e \in Defs \ {d} : def'[e] = def[e]
<1>. DEFINE entry == [name |-> def[d].name, schema |-> def[d].schema, refcount |-> n]
<1>1. /\ entry \in Entries /\ entry.name = def[d].name /\ entry.schema = def[d].schema
      /\ entry.refcount = n
    BY DEF Entries
<1>2. def' = [def EXCEPT ![d] = entry] /\ def \in [Defs -> Entries \cup {None}]
    BY DEF SetRefcount, Types
<1>. HIDE DEF entry
<1>. QED
    BY <1>1, <1>2

\* The rest of registerSchema: a handle more, and one more is counted.
LEMMA CountReferenceInv ==
    ASSUME DispatcherInv, NEW l \in Libs, CountReference(l)
    PROVE  DispatcherInv'
<1>1. PICK c : c = cur[l]
    OBVIOUS
<1>2. PICK n : n = def[c].refcount
    OBVIOUS
<1>3. /\ pc[l] = "counting" /\ mutex' = None /\ pc' = [pc EXCEPT ![l] = "kernel"]
      /\ SetRefcount(c, n + 1)
      /\ IF n = 0 THEN CallListeners(c, 1) ELSE UNCHANGED view
      /\ UNCHANGED <<operators, kernels, lookup, cur, registrars, loads, attached>>
    BY <1>1, <1>2 DEF CountReference, Goto
<1>4. Types /\ MutexInv /\ LookupInv /\ OperatorInv /\ ViewInv /\ RegistrarsOf(l) /\ CurrentOf(l)
    BY DEF DispatcherInv
<1>5. c \in operators /\ c \in Defs /\ def[c] \in Entries /\ Fits(c, Step(l))
    BY <1>1, <1>3, <1>4 DEF CurrentOf, Fits, Types, TypeOK
<1>6. n \in Nat /\ n + 1 \in Nat /\ n + 1 # 0
    BY <1>2, <1>5 DEF Entries
<1>7. /\ def' \in [Defs -> Entries \cup {None}]
      /\ def'[c] \in Entries /\ def'[c].name = def[c].name
      /\ def'[c].schema = def[c].schema /\ def'[c].refcount = n + 1
      /\ \A e \in Defs \ {c} : def'[e] = def[e]
    BY <1>3, <1>4, <1>5, <1>6, SetRefcountFacts
<1>8. \A u \in Libs \ {l} : /\ pc[u] \notin {"counting", "erasing"}
                            /\ pc'[u] = pc[u] /\ cur'[u] = cur[u] /\ registrars'[u] = registrars[u]
    BY <1>3, <1>4, OnlyHolder DEF Types, TypeOK
<1>9. pc'[l] = "kernel" /\ cur'[l] = c
    BY <1>1, <1>3, <1>4 DEF Types, TypeOK
<1>10. \A e \in operators : /\ e \in Defs /\ def'[e] \in Entries
                             /\ def'[e].name = def[e].name /\ def'[e].schema = def[e].schema
    BY <1>4, <1>7 DEF OperatorInv, Types, TypeOK
<1>11. Handles(c)' = Handles(c) \cup {<<l, 0>>} /\ <<l, 0>> \notin Handles(c)
    <2>1. HandlesOf(l, c)' = HandlesOf(l, c) \cup {<<l, 0>>}
        BY <1>3, <1>9 DEF HandlesOf
    <2>2. Handles(c)' = Handles(c) \cup {<<l, 0>>}
        BY <1>8, <2>1, LibHandles DEF OnlyLib
    <2>. QED
        BY <1>3, <2>2, OwnHandle
<1>12. ASSUME NEW e, e # c PROVE Handles(e)' = Handles(e)
    <2>1. HandlesOf(l, e)' = HandlesOf(l, e)
        BY <1>1, <1>3, <1>9, <1>12 DEF HandlesOf
    <2>. QED
        BY <1>8, <2>1, LibHandles DEF OnlyLib
<1>13. view' \in [Listeners -> [Defs -> Int]] /\ ViewInv'
    <2>1. view \in [Listeners -> [Defs -> Int]]
        BY <1>4 DEF Types
    <2>2. CASE n = 0
        <3>1. view' = [x \in Listeners |->
                 IF x \in attached THEN [view[x] EXCEPT ![c] = @ + 1] ELSE view[x]]
            BY <1>3, <2>2 DEF CallListeners
        <3>2. /\ view' \in [Listeners -> [Defs -> Int]]
              /\ \A x \in Listeners : \A e \in Defs :
                    view'[x][e] = IF x \in attached /\ e = c THEN view[x][e] + 1 ELSE view[x][e]
            <4>1. ASSUME NEW x \in Listeners
                  PROVE  /\ view'[x] \in [Defs -> Int]
                         /\ \A e \in Defs : view'[x][e] =
                               IF x \in attached /\ e = c THEN view[x][e] + 1 ELSE view[x][e]
                BY <1>5, <2>1, <3>1
            <4>. QED
                BY <3>1, <4>1
        <3>3. \A x \in Listeners : view[x][c] = 0
            <4>1. ~(def[c].refcount > 0)
                BY <1>2, <2>2
            <4>. QED
                BY <1>4, <1>5, <4>1 DEF ViewInv
        <3>4. \A x \in Listeners : view'[x][c] = IF x \in attached THEN 1 ELSE 0
            BY <1>5, <3>2, <3>3
        <3>5. \A x \in Listeners : \A e \in Defs \ {c} : view'[x][e] = view[x][e]
            BY <3>2
        <3>. QED
            BY <1>3, <1>4, <1>5, <1>6, <1>7, <3>2, <3>4, <3>5 DEF ViewInv
    <2>3. CASE n # 0
        <3>1. n > 0 /\ n + 1 > 0 /\ view' = view
            BY <1>3, <1>6, <2>3
        <3>2. \A e \in Defs : def'[e].refcount > 0 <=> def[e].refcount > 0
            BY <1>2, <1>7, <3>1
        <3>. QED
            BY <1>3, <1>4, <2>1, <3>1, <3>2 DEF ViewInv
    <2>. QED
        BY <2>2, <2>3
<1>14. Types'
    <2>1. \A e \in Defs : def'[e] = None \/ def'[e] \in [name : Names, schema : Schemas, refcount : Nat]
        BY <1>7 DEF Entries
    <2>. QED
        BY <1>3, <1>4, <1>7, <1>13, <2>1 DEF Types, TypeOK
<1>15. MutexInv'
    BY <1>3, <1>8, <1>9, DefsAssumption DEF MutexInv
<1>16. ASSUME NEW u \in Libs PROVE RegistrarsOf(u)' /\ CurrentOf(u)'
    <2>1. CASE u = l
        <3>1. Registered(l)' = Registered(l) /\ Step(l)' = Step(l)
            BY <1>3 DEF Registered, Step
        <3>2. \A asked : \A e \in operators : Fits(e, asked) => Fits(e, asked)'
            BY <1>3, <1>10 DEF Fits
        <3>3. \A r \in Registered(l) : Fits(r.op, Plan[l][r.kernel[2]])'
            BY <1>4, <3>2 DEF RegistrarsOf, Fits
        <3>4. Fits(c, Step(l))'
            BY <1>3, <1>5, <1>10, <3>1 DEF Fits
        <3>. QED
            BY <1>3, <1>4, <1>9, <2>1, <3>1, <3>3, <3>4 DEF RegistrarsOf, CurrentOf
    <2>2. CASE u # l
        BY <1>3, <1>8, <1>10, <2>2, OthersStay
    <2>. QED
        BY <2>1, <2>2
<1>17. OperatorInv'
    <2>1. ASSUME NEW e \in operators
          PROVE  /\ def'[e] \in Entries /\ lookup[def'[e].name] = e
                 /\ IsFiniteSet(Handles(e)') /\ def'[e].refcount = Cardinality(Handles(e)')
                 /\ def'[e].refcount # 0
        <3>1. /\ def[e] \in Entries /\ lookup[def[e].name] = e
              /\ IsFiniteSet(Handles(e)) /\ def[e].refcount = Cardinality(Handles(e))
              /\ e # c => def[e].refcount # 0
            BY <1>1, <1>4, <1>8 DEF OperatorInv
        <3>2. CASE e = c
            <4>1. IsFiniteSet(Handles(c)') /\ Cardinality(Handles(c)') = n + 1
                <5>1. IsFiniteSet(Handles(c)) /\ Cardinality(Handles(c)) = n
                    BY <1>2, <3>1, <3>2
                <5>2. /\ IsFiniteSet(Handles(c) \cup {<<l, 0>>})
                      /\ Cardinality(Handles(c) \cup {<<l, 0>>}) = Cardinality(Handles(c)) + 1
                    BY <1>11, <5>1, FS_AddElement, Zenon
                <5>. QED
                    BY <1>11, <5>1, <5>2
            <4>. QED
                BY <1>6, <1>7, <3>1, <3>2, <4>1
        <3>3. CASE e # c
            BY <1>7, <1>10, <1>12, <3>1, <3>3
        <3>. QED
            BY <3>2, <3>3
    <2>. QED
        BY <1>3, <2>1 DEF OperatorInv
<1>18. LookupInv'
    <2>1. ASSUME NEW m \in Names, lookup[m] # None
          PROVE  lookup[m] \in operators /\ def[lookup[m]].name = m
        BY <1>3, <1>4, <1>8, <2>1 DEF LookupInv
    <2>. QED
        BY <1>3, <1>10, <2>1 DEF LookupInv
<1>19. KernelInv'
    BY <1>3 DEF DispatcherInv, KernelInv, Registered
<1>. QED
    BY <1>13, <1>14, <1>15, <1>16, <1>17, <1>18, <1>19 DEF DispatcherInv

\* The registrar is complete: its handle is now known by its kernel.
LEMMA AddKernelInv ==
    ASSUME DispatcherInv, NEW l \in Libs, AddKernel(l)
    PROVE  DispatcherInv'
<1>1. PICK c : c = cur[l]
    OBVIOUS
<1>2. PICK k : k = <<l, Len(registrars[l]) + 1>>
    OBVIOUS
<1>. DEFINE new == [op |-> c, kernel |-> k]
<1>3. /\ pc[l] = "kernel" /\ pc' = [pc EXCEPT ![l] = "loading"]
      /\ registrars' = [registrars EXCEPT ![l] = Append(@, new)]
      /\ kernels' = [kernels EXCEPT ![c] = @ \cup {k}] \/ kernels' = kernels
      /\ cur' = [cur EXCEPT ![l] = None]
      /\ UNCHANGED <<operators, def, lookup, mutex, loads, attached, view>>
    BY <1>1, <1>2 DEF AddKernel, Goto
<1>4. Types /\ MutexInv /\ OperatorInv /\ LookupInv /\ KernelInv /\ RegistrarsOf(l) /\ CurrentOf(l)
    BY DEF DispatcherInv
<1>5. c \in operators /\ c \in Defs /\ Fits(c, Step(l))
    BY <1>1, <1>3, <1>4 DEF CurrentOf, Fits, Types, TypeOK
<1>6. /\ registrars[l] \in Seq(Registrars) /\ Len(registrars[l]) \in Nat
      /\ Len(registrars[l]) < Len(Plan[l]) /\ IsInjective(registrars[l])
      /\ \A r \in Registered(l) : r.kernel[2] \in 1..Len(registrars[l])
    <2>1. registrars[l] \in Seq(Registrars) /\ Len(registrars[l]) \in Nat
        BY <1>4, LenProperties DEF Types
    <2>. QED
        BY <1>3, <1>4, <2>1 DEF RegistrarsOf
<1>7. /\ k \in Libs \X Nat /\ k[1] = l /\ k[2] = Len(registrars[l]) + 1
      /\ k[2] \in 1..Len(Plan[l]) /\ Step(l) = Plan[l][k[2]]
    <2>1. Len(registrars[l]) + 1 \in 1..Len(Plan[l])
        BY <1>4, <1>6, NextStep
    <2>. QED
        BY <1>2, <1>6, <2>1 DEF Step
<1>8. new \in Registrars /\ new.op = c /\ new.kernel = k
    BY <1>5, <1>7 DEF Registrars
<1>9. \A r \in Registered(l) : r.kernel # k /\ r # new /\ r.kernel[2] # k[2]
    BY <1>6, <1>7, <1>8
<1>. HIDE DEF new
<1>10. /\ registrars'[l] = Append(registrars[l], new) /\ pc'[l] = "loading" /\ cur'[l] = None
       /\ OnlyLib(l)
    BY <1>3, <1>4 DEF Types, TypeOK, OnlyLib
<1>11. /\ registrars'[l] \in Seq(Registrars) /\ Len(registrars'[l]) = Len(registrars[l]) + 1
       /\ Registered(l)' = Registered(l) \cup {new}
       /\ IsInjective(registrars'[l])
    BY <1>6, <1>8, <1>9, <1>10, AppendElements DEF Registered
<1>12. Handles(c)' = (Handles(c) \ {<<l, 0>>}) \cup {k} /\ <<l, 0>> \in Handles(c) /\ k \notin Handles(c)
    <2>1. HandlesOf(l, c) = {r.kernel : r \in {r \in Registered(l) : r.op = c}} \cup {<<l, 0>>}
        BY <1>1, <1>3 DEF HandlesOf, Registered
    <2>2. HandlesOf(l, c)' = {r.kernel : r \in {r \in Registered(l)' : r.op = c}}
        BY <1>10 DEF HandlesOf, Registered
    <2>3. HandlesOf(l, c)' = {r.kernel : r \in {r \in Registered(l) : r.op = c}} \cup {k}
        BY <1>8, <1>11, <2>2
    <2>4. <<l, 0>> \notin {r.kernel : r \in {r \in Registered(l) : r.op = c}}
        <3>1. \A r \in Registered(l) : r.kernel # <<l, 0>>
            BY <1>6
        <3>. QED
            BY <3>1
    <2>5. k # <<l, 0>>
        BY <1>6, <1>7
    <2>6. \A u \in Libs \ {l} : HandlesOf(u, c)' = HandlesOf(u, c) /\ <<l, 0>> \notin HandlesOf(u, c)
                                /\ k \notin HandlesOf(u, c)
        <3>1. \A u \in Libs \ {l} : HandlesOf(u, c)' = HandlesOf(u, c)
            BY <1>10 DEF HandlesOf, OnlyLib
        <3>2. \A u \in Libs \ {l} : \A h \in HandlesOf(u, c) : h[1] # l
            BY HandlesTellLibrary
        <3>3. <<l, 0>>[1] = l
            OBVIOUS
        <3>. QED
            BY <1>7, <3>1, <3>2, <3>3
    <2>7. k \notin HandlesOf(l, c)
        BY <1>9, <2>1, <2>5
    <2>8. HandlesOf(l, c)' = (HandlesOf(l, c) \ {<<l, 0>>}) \cup {k} /\ <<l, 0>> \in HandlesOf(l, c)
        BY <2>1, <2>3, <2>4
    <2>. QED
        BY <2>6, <2>7, <2>8 DEF Handles
<1>13. ASSUME NEW e, e # c PROVE Handles(e)' = Handles(e)
    <2>1. {r \in Registered(l)' : r.op = e} = {r \in Registered(l) : r.op = e}
        BY <1>8, <1>11, <1>13
    <2>2. HandlesOf(l, e)' = {r.kernel : r \in {r \in Registered(l)' : r.op = e}}
        BY <1>10 DEF HandlesOf, Registered
    <2>3. HandlesOf(l, e) = {r.kernel : r \in {r \in Registered(l) : r.op = e}}
        BY <1>1, <1>13 DEF HandlesOf, Registered
    <2>4. HandlesOf(l, e)' = HandlesOf(l, e)
        BY <2>1, <2>2, <2>3
    <2>. QED
        BY <1>10, <2>4, LibHandles
<1>14. Types'
    <2>1. registrars' \in [Libs -> Seq(Registrars)]
        BY <1>3, <1>4, <1>10, <1>11 DEF Types
    <2>2. kernels' \in [Defs -> SUBSET (Libs \X Nat)]
        <3>1. kernels \in [Defs -> SUBSET (Libs \X Nat)]
            BY <1>4 DEF Types
        <3>2. kernels[c] \cup {k} \in SUBSET (Libs \X Nat)
            BY <1>5, <1>7, <3>1
        <3>. QED
            BY <1>3, <3>1, <3>2
    <2>. QED
        BY <1>3, <1>4, <2>1, <2>2 DEF Types, TypeOK
<1>15. MutexInv'
    BY <1>3, <1>4, <1>10 DEF MutexInv, OnlyLib
<1>16. \A e \in operators : e \in operators' /\ def'[e] \in Entries /\ def'[e] = def[e]
    BY <1>3, <1>4 DEF OperatorInv
<1>17. ASSUME NEW u \in Libs PROVE RegistrarsOf(u)' /\ CurrentOf(u)'
    <2>1. CASE u = l
        <3>1. \A asked : \A e : Fits(e, asked)' <=> Fits(e, asked)
            BY <1>3 DEF Fits
        <3>2. \A r \in Registered(l)' : /\ r.kernel[1] = l /\ r.kernel[2] \in 1..Len(Plan[l])
                                        /\ Fits(r.op, Plan[l][r.kernel[2]])
            BY <1>4, <1>5, <1>7, <1>8, <1>11 DEF RegistrarsOf
        <3>3. \A r, v \in Registered(l)' : r.kernel[2] = v.kernel[2] => r = v
            BY <1>4, <1>8, <1>9, <1>11 DEF RegistrarsOf
        <3>4. /\ Len(registrars'[l]) <= Len(Plan[l])
              /\ \A r \in Registered(l)' : r.kernel[2] <= Len(registrars'[l])
            <4>1. Len(registrars[l]) + 1 <= Len(Plan[l])
                BY <1>4, <1>6, NextStep
            <4>2. \A r \in Registered(l) : r.kernel[2] <= Len(registrars[l]) + 1
                BY <1>6
            <4>. QED
                BY <1>7, <1>8, <1>11, <4>1, <4>2
        <3>5. CurrentOf(l)'
            BY <1>10 DEF CurrentOf
        <3>. QED
            BY <1>10, <1>11, <2>1, <3>1, <3>2, <3>3, <3>4, <3>5 DEF RegistrarsOf
    <2>2. CASE u # l
        BY <1>3, <1>4, <1>10, <1>16, <2>2, OthersStay DEF OnlyLib, DispatcherInv, CurrentOf
    <2>. QED
        BY <2>1, <2>2
<1>18. OperatorInv'
    <2>1. ASSUME NEW e \in operators
          PROVE  /\ IsFiniteSet(Handles(e)') /\ def[e].refcount = Cardinality(Handles(e)')
        <3>1. IsFiniteSet(Handles(e)) /\ def[e].refcount = Cardinality(Handles(e))
            BY <1>4 DEF OperatorInv
        <3>2. CASE e = c
            BY <1>12, <3>1, <3>2, SwapElement
        <3>3. CASE e # c
            BY <1>13, <3>1, <3>3
        <3>. QED
            BY <3>2, <3>3
    <2>2. ASSUME NEW e \in operators, def[e].refcount = 0
          PROVE  \E u \in Libs : pc'[u] = "counting" /\ cur'[u] = e
        BY <1>3, <1>4, <1>10, <2>2 DEF OperatorInv, OnlyLib
    <2>. QED
        BY <1>3, <1>4, <2>1, <2>2 DEF OperatorInv
<1>19. LookupInv'
    <2>1. ASSUME NEW u \in Libs, pc[u] = "erasing" PROVE pc'[u] = "erasing" /\ cur'[u] = cur[u]
        BY <1>3, <1>10, <2>1 DEF OnlyLib
    <2>. QED
        BY <1>3, <1>4, <2>1 DEF LookupInv
<1>20. KernelInv'
    <2>1. \A u \in Libs : Registered(u) \subseteq Registered(u)'
        BY <1>10, <1>11 DEF Registered, OnlyLib
    <2>2. ASSUME NEW d \in Defs, NEW h \in kernels'[d]
          PROVE  \E u \in Libs : \E r \in Registered(u)' : r.op = d /\ r.kernel = h
        <3>1. h \in kernels[d] \/ (d = c /\ h = k)
            BY <1>3, <1>4, <2>2 DEF Types
        <3>2. CASE h \in kernels[d]
            BY <1>4, <2>1, <3>2 DEF KernelInv
        <3>3. CASE d = c /\ h = k
            BY <1>8, <1>11, <3>3
        <3>. QED
            BY <3>1, <3>2, <3>3
    <2>. QED
        BY <2>2 DEF KernelInv
<1>21. ViewInv'
    BY <1>3 DEF DispatcherInv, ViewInv
<1>. QED
    BY <1>14, <1>15, <1>17, <1>18, <1>19, <1>20, <1>21 DEF DispatcherInv

\* A kernel that is refused leaves its list element; the handle is given up.
LEMMA RejectKernelInv ==
    ASSUME DispatcherInv, NEW l \in Libs, RejectKernel(l)
    PROVE  DispatcherInv'
<1>1. /\ pc[l] = "kernel" /\ pc' = [pc EXCEPT ![l] = "releasing"]
      /\ UNCHANGED <<operators, def, kernels, lookup, mutex, cur, registrars, loads, attached, view>>
    BY DEF RejectKernel, Goto
<1>2. Types /\ MutexInv /\ OperatorInv /\ LookupInv /\ RegistrarsOf(l) /\ CurrentOf(l)
    BY DEF DispatcherInv
<1>3. /\ pc'[l] = "releasing" /\ \A u \in Libs \ {l} : pc'[u] = pc[u]
      /\ cur[l] \in operators /\ cur[l] \in Defs
    BY <1>1, <1>2 DEF CurrentOf, Fits, Types, TypeOK
<1>4. Types'
    BY <1>1, <1>2, <1>3 DEF Types, TypeOK
<1>5. MutexInv'
    BY <1>1, <1>2, <1>3 DEF MutexInv
<1>6. ASSUME NEW u \in Libs PROVE RegistrarsOf(u)' /\ CurrentOf(u)'
    <2>1. CASE u = l
        <3>1. Registered(l)' = Registered(l)
            BY <1>1 DEF Registered
        <3>2. \A asked : \A e : Fits(e, asked)' <=> Fits(e, asked)
            BY <1>1 DEF Fits
        <3>. QED
            BY <1>1, <1>2, <1>3, <2>1, <3>1, <3>2 DEF RegistrarsOf, CurrentOf
    <2>2. CASE u # l
        <3>1. \A e \in operators : def[e] \in Entries
            BY <1>2 DEF OperatorInv
        <3>. QED
            BY <1>1, <1>3, <2>2, <3>1, OthersStay DEF DispatcherInv, CurrentOf
    <2>. QED
        BY <2>1, <2>2
<1>7. \A e : Handles(e)' = Handles(e)
    BY <1>1, <1>3, HandlesSame
<1>8. \A u \in Libs : pc[u] \in {"counting", "erasing"} => pc'[u] = pc[u]
    BY <1>1, <1>3
<1>9. OperatorInv' /\ LookupInv'
    BY <1>1, <1>2, <1>7, <1>8 DEF OperatorInv, LookupInv
<1>10. KernelInv' /\ ViewInv'
    BY <1>1 DEF DispatcherInv, KernelInv, ViewInv, Registered
<1>. QED
    BY <1>4, <1>5, <1>6, <1>9, <1>10 DEF DispatcherInv

\* A registrar is destroyed: its kernel leaves the table before its handle is
\* given back.
LEMMA DropKernelInv ==
    ASSUME DispatcherInv, NEW l \in Libs, DropKernel(l)
    PROVE  DispatcherInv'
<1>1. PICK i \in DOMAIN registrars[l] :
         /\ kernels' = [kernels EXCEPT ![registrars[l][i].op] = @ \ {registrars[l][i].kernel}]
         /\ cur' = [cur EXCEPT ![l] = registrars[l][i].op]
         /\ registrars' = [registrars EXCEPT ![l] = RemoveAt(@, i)]
    BY DEF DropKernel
<1>2. PICK r : r = registrars[l][i]
    OBVIOUS
<1>3. PICK c : c = r.op
    OBVIOUS
<1>4. PICK k : k = r.kernel
    OBVIOUS
<1>5. /\ pc[l] = "unloading" /\ pc' = [pc EXCEPT ![l] = "releasing"]
      /\ kernels' = [kernels EXCEPT ![c] = @ \ {k}]
      /\ cur' = [cur EXCEPT ![l] = c]
      /\ registrars' = [registrars EXCEPT ![l] = RemoveAt(@, i)]
      /\ UNCHANGED <<operators, def, lookup, mutex, loads, attached, view>>
    BY <1>1, <1>2, <1>3, <1>4 DEF DropKernel, Goto
<1>6. Types /\ MutexInv /\ OperatorInv /\ LookupInv /\ KernelInv /\ RegistrarsOf(l) /\ CurrentOf(l)
    BY DEF DispatcherInv
<1>7. /\ registrars[l] \in Seq(Registrars) /\ i \in 1..Len(registrars[l])
      /\ IsInjective(registrars[l]) /\ r \in Registered(l)
    <2>1. registrars[l] \in Seq(Registrars) /\ IsInjective(registrars[l])
        BY <1>6 DEF Types, RegistrarsOf
    <2>2. DOMAIN registrars[l] = 1..Len(registrars[l])
        BY <2>1, LenProperties
    <2>. QED
        BY <1>1, <1>2, <2>1, <2>2 DEF Registered, ToSet
<1>8. /\ k[1] = l /\ k[2] \in 1..Len(Plan[l]) /\ c \in operators /\ c \in Defs
      /\ \A u \in Registered(l) : u.kernel = k => u = r
    BY <1>3, <1>4, <1>6, <1>7 DEF RegistrarsOf, Fits, Types, TypeOK
<1>9. /\ registrars'[l] = RemoveAt(registrars[l], i) /\ pc'[l] = "releasing" /\ cur'[l] = c
      /\ OnlyLib(l)
    BY <1>5, <1>6, <1>8 DEF Types, TypeOK, OnlyLib
<1>10. /\ registrars'[l] \in Seq(Registrars) /\ Registered(l)' = Registered(l) \ {r}
       /\ IsInjective(registrars'[l])
    BY <1>2, <1>7, <1>9, RemoveAtElements DEF Registered
<1>11. Handles(c)' = (Handles(c) \ {k}) \cup {<<l, 0>>} /\ k \in Handles(c) /\ <<l, 0>> \notin Handles(c)
    <2>1. HandlesOf(l, c) = {u.kernel : u \in {u \in Registered(l) : u.op = c}}
        BY <1>5 DEF HandlesOf, Registered
    <2>2. HandlesOf(l, c)' = {u.kernel : u \in {u \in Registered(l)' : u.op = c}} \cup {<<l, 0>>}
        BY <1>9 DEF HandlesOf, Registered
    <2>3. {u.kernel : u \in {u \in Registered(l)' : u.op = c}}
             = {u.kernel : u \in {u \in Registered(l) : u.op = c}} \ {k}
        BY <1>4, <1>8, <1>10
    <2>4. k \in HandlesOf(l, c)
        BY <1>3, <1>4, <1>7, <2>1
    <2>5. HandlesOf(l, c)' = (HandlesOf(l, c) \ {k}) \cup {<<l, 0>>}
        BY <2>1, <2>2, <2>3
    <2>6. \A u \in Libs \ {l} : HandlesOf(u, c)' = HandlesOf(u, c) /\ k \notin HandlesOf(u, c)
        <3>1. \A u \in Libs \ {l} : HandlesOf(u, c)' = HandlesOf(u, c)
            BY <1>9 DEF HandlesOf, OnlyLib
        <3>2. \A u \in Libs \ {l} : \A h \in HandlesOf(u, c) : h[1] # l
            BY HandlesTellLibrary
        <3>. QED
            BY <1>8, <3>1, <3>2
    <2>7. Handles(c)' = (Handles(c) \ {k}) \cup {<<l, 0>>} /\ k \in Handles(c)
        BY <2>4, <2>5, <2>6 DEF Handles
    <2>8. <<l, 0>> \notin Handles(c)
        BY <1>5, OwnHandle
    <2>. QED
        BY <2>7, <2>8
<1>12. ASSUME NEW e, e # c PROVE Handles(e)' = Handles(e)
    <2>1. {u \in Registered(l)' : u.op = e} = {u \in Registered(l) : u.op = e}
        BY <1>3, <1>10, <1>12
    <2>2. HandlesOf(l, e)' = {u.kernel : u \in {u \in Registered(l)' : u.op = e}}
        BY <1>9, <1>12 DEF HandlesOf, Registered
    <2>3. HandlesOf(l, e) = {u.kernel : u \in {u \in Registered(l) : u.op = e}}
        BY <1>5 DEF HandlesOf, Registered
    <2>4. HandlesOf(l, e)' = HandlesOf(l, e)
        BY <2>1, <2>2, <2>3
    <2>. QED
        BY <1>9, <2>4, LibHandles
<1>13. Types'
    <2>1. registrars' \in [Libs -> Seq(Registrars)]
        BY <1>5, <1>6, <1>9, <1>10 DEF Types
    <2>2. kernels' \in [Defs -> SUBSET (Libs \X Nat)]
        <3>1. kernels \in [Defs -> SUBSET (Libs \X Nat)]
            BY <1>6 DEF Types
        <3>2. kernels[c] \ {k} \in SUBSET (Libs \X Nat)
            BY <1>8, <3>1
        <3>. QED
            BY <1>5, <3>1, <3>2
    <2>. QED
        BY <1>5, <1>6, <1>8, <2>1, <2>2 DEF Types, TypeOK
<1>14. MutexInv'
    BY <1>5, <1>6, <1>9 DEF MutexInv, OnlyLib
<1>15. \A e \in operators : e \in operators' /\ def'[e] \in Entries /\ def'[e] = def[e]
    BY <1>5, <1>6 DEF OperatorInv
<1>16. ASSUME NEW u \in Libs PROVE RegistrarsOf(u)' /\ CurrentOf(u)'
    <2>1. CASE u = l
        <3>1. \A asked : \A e : Fits(e, asked)' <=> Fits(e, asked)
            BY <1>5 DEF Fits
        <3>2. CurrentOf(l)'
            BY <1>5, <1>8, <1>9 DEF CurrentOf
        <3>. QED
            BY <1>6, <1>9, <1>10, <2>1, <3>1, <3>2 DEF RegistrarsOf
    <2>2. CASE u # l
        BY <1>5, <1>6, <1>9, <1>15, <2>2, OthersStay DEF OnlyLib, DispatcherInv, CurrentOf
    <2>. QED
        BY <2>1, <2>2
<1>17. OperatorInv'
    <2>1. ASSUME NEW e \in operators
          PROVE  /\ IsFiniteSet(Handles(e)') /\ def[e].refcount = Cardinality(Handles(e)')
        <3>1. IsFiniteSet(Handles(e)) /\ def[e].refcount = Cardinality(Handles(e))
            BY <1>6 DEF OperatorInv
        <3>2. CASE e = c
            BY <1>11, <3>1, <3>2, SwapElement
        <3>3. CASE e # c
            BY <1>12, <3>1, <3>3
        <3>. QED
            BY <3>2, <3>3
    <2>2. ASSUME NEW e \in operators, def[e].refcount = 0
          PROVE  \E u \in Libs : pc'[u] = "counting" /\ cur'[u] = e
        BY <1>5, <1>6, <1>9, <2>2 DEF OperatorInv, OnlyLib
    <2>. QED
        BY <1>5, <1>6, <2>1, <2>2 DEF OperatorInv
<1>18. LookupInv'
    <2>1. ASSUME NEW u \in Libs, pc[u] = "erasing" PROVE pc'[u] = "erasing" /\ cur'[u] = cur[u]
        BY <1>5, <1>9, <2>1 DEF OnlyLib
    <2>. QED
        BY <1>5, <1>6, <2>1 DEF LookupInv
<1>19. KernelInv'
    <2>1. ASSUME NEW d \in Defs, NEW h \in kernels'[d]
          PROVE  \E u \in Libs : \E v \in Registered(u)' : v.op = d /\ v.kernel = h
        <3>1. h \in kernels[d] /\ ~(d = c /\ h = k)
            BY <1>5, <1>6, <1>8, <2>1 DEF Types
        <3>0. PICK u \in Libs : \E v \in Registered(u) : v.op = d /\ v.kernel = h
            BY <1>6, <3>1 DEF KernelInv
        <3>2. PICK v \in Registered(u) : v.op = d /\ v.kernel = h
            BY <3>0
        <3>3. v # r
            BY <1>3, <1>4, <3>1, <3>2
        <3>4. v \in Registered(u)'
            BY <1>9, <1>10, <3>2, <3>3 DEF Registered, OnlyLib
        <3>. QED
            BY <3>2, <3>4
    <2>. QED
        BY <2>1 DEF KernelInv
<1>20. ViewInv'
    BY <1>5 DEF DispatcherInv, ViewInv
<1>. QED
    BY <1>13, <1>14, <1>16, <1>17, <1>18, <1>19, <1>20 DEF DispatcherInv

\* A library that gives its handle back holds one; with the last count it is
\* the last.
LEMMA LastHandle ==
    ASSUME DispatcherInv, NEW l \in Libs, NEW c, c = cur[l], pc[l] = "releasing"
    PROVE  /\ c \in operators /\ c \in Defs /\ def[c] \in Entries
           /\ IsFiniteSet(Handles(c)) /\ <<l, 0>> \in Handles(c)
           /\ def[c].refcount = Cardinality(Handles(c))
           /\ def[c].refcount = 1 => Handles(c) = {<<l, 0>>}
<1>1. c \in operators /\ c \in Defs
    BY DEF DispatcherInv, CurrentOf, Types, TypeOK
<1>2. <<l, 0>> \in Handles(c)
    BY OwnHandle
<1>3. def[c] \in Entries /\ IsFiniteSet(Handles(c)) /\ def[c].refcount = Cardinality(Handles(c))
    BY <1>1 DEF DispatcherInv, OperatorInv
<1>4. ASSUME Cardinality(Handles(c)) = 1 PROVE Handles(c) = {<<l, 0>>}
    <2>1. PICK x : Handles(c) = {x}
        BY <1>3, <1>4, FS_Singleton
    <2>. QED
        BY <1>2, <2>1
<1>. QED
    BY <1>1, <1>2, <1>3, <1>4

\* A handle is given back and others are left.
LEMMA ReleaseReferenceInv ==
    ASSUME DispatcherInv, NEW l \in Libs, ReleaseReference(l)
    PROVE  DispatcherInv'
<1>1. PICK c : c = cur[l]
    OBVIOUS
<1>2. PICK n : n = def[c].refcount
    OBVIOUS
<1>3. /\ pc[l] = "releasing" /\ mutex = None /\ pc' = [pc EXCEPT ![l] = "unloading"]
      /\ n > 1 /\ SetRefcount(c, n - 1) /\ cur' = [cur EXCEPT ![l] = None]
      /\ UNCHANGED <<operators, kernels, lookup, mutex, registrars, loads, attached, view>>
    BY <1>1, <1>2 DEF ReleaseReference, Goto
<1>4. Types /\ MutexInv /\ LookupInv /\ OperatorInv /\ ViewInv /\ RegistrarsOf(l)
    BY DEF DispatcherInv
<1>5. /\ c \in operators /\ c \in Defs /\ def[c] \in Entries
      /\ IsFiniteSet(Handles(c)) /\ <<l, 0>> \in Handles(c) /\ n = Cardinality(Handles(c))
    BY <1>1, <1>2, <1>3, LastHandle
<1>6. n \in Nat /\ n - 1 \in Nat /\ n - 1 > 0 /\ n - 1 # 0
    <2>1. n \in Nat
        BY <1>2, <1>5 DEF Entries
    <2>. QED
        BY <1>3, <2>1
<1>7. /\ def' \in [Defs -> Entries \cup {None}]
      /\ def'[c] \in Entries /\ def'[c].name = def[c].name
      /\ def'[c].schema = def[c].schema /\ def'[c].refcount = n - 1
      /\ \A e \in Defs \ {c} : def'[e] = def[e]
    BY <1>3, <1>4, <1>5, <1>6, SetRefcountFacts
<1>8. pc'[l] = "unloading" /\ cur'[l] = None /\ OnlyLib(l)
    BY <1>3, <1>4 DEF Types, TypeOK, OnlyLib
<1>9. \A u \in Libs : pc[u] \notin {"counting", "erasing"}
    BY <1>3, NoHolder
<1>10. \A e \in operators : /\ e \in Defs /\ def'[e] \in Entries
                             /\ def'[e].name = def[e].name /\ def'[e].schema = def[e].schema
    BY <1>4, <1>7 DEF OperatorInv, Types, TypeOK
<1>11. Handles(c)' = Handles(c) \ {<<l, 0>>}
    <2>1. \A r \in Registered(l) : r.kernel # <<l, 0>>
        <3>1. \A r \in Registered(l) : r.kernel[2] \in 1..Len(Plan[l])
            BY <1>4 DEF RegistrarsOf
        <3>. QED
            BY <3>1
    <2>2. HandlesOf(l, c)' = {r.kernel : r \in {r \in Registered(l) : r.op = c}}
        BY <1>3, <1>8 DEF HandlesOf, Registered
    <2>3. HandlesOf(l, c) = {r.kernel : r \in {r \in Registered(l) : r.op = c}} \cup {<<l, 0>>}
        BY <1>1, <1>3 DEF HandlesOf, Registered
    <2>4. HandlesOf(l, c)' = HandlesOf(l, c) \ {<<l, 0>>}
        BY <2>1, <2>2, <2>3
    <2>5. <<l, 0>>[1] = l
        OBVIOUS
    <2>. QED
        BY <1>8, <2>4, <2>5, LibHandles
<1>12. ASSUME NEW e, e # c PROVE Handles(e)' = Handles(e)
    <2>1. HandlesOf(l, e)' = HandlesOf(l, e)
        BY <1>1, <1>3, <1>8, <1>12 DEF HandlesOf
    <2>. QED
        BY <1>8, <2>1, LibHandles
<1>13. Types'
    <2>1. \A e \in Defs : def'[e] = None \/ def'[e] \in [name : Names, schema : Schemas, refcount : Nat]
        BY <1>7 DEF Entries
    <2>. QED
        BY <1>3, <1>4, <1>7, <2>1 DEF Types, TypeOK
<1>14. MutexInv'
    BY <1>3, <1>4, <1>8, <1>9 DEF MutexInv, OnlyLib
<1>15. ASSUME NEW u \in Libs PROVE RegistrarsOf(u)' /\ CurrentOf(u)'
    <2>1. CASE u = l
        <3>1. Registered(l)' = Registered(l)
            BY <1>3 DEF Registered
        <3>2. \A asked : \A e \in operators : Fits(e, asked) => Fits(e, asked)'
            BY <1>3, <1>10 DEF Fits
        <3>3. \A r \in Registered(l) : Fits(r.op, Plan[l][r.kernel[2]])'
            BY <1>4, <3>2 DEF RegistrarsOf, Fits
        <3>. QED
            BY <1>3, <1>4, <1>8, <2>1, <3>1, <3>3 DEF RegistrarsOf, CurrentOf
    <2>2. CASE u # l
        BY <1>3, <1>8, <1>9, <1>10, <2>2, OthersStay DEF OnlyLib
    <2>. QED
        BY <2>1, <2>2
<1>16. OperatorInv'
    <2>1. ASSUME NEW e \in operators
          PROVE  /\ def'[e] \in Entries /\ lookup[def'[e].name] = e
                 /\ IsFiniteSet(Handles(e)') /\ def'[e].refcount = Cardinality(Handles(e)')
                 /\ def'[e].refcount # 0
        <3>1. /\ def[e] \in Entries /\ lookup[def[e].name] = e
              /\ IsFiniteSet(Handles(e)) /\ def[e].refcount = Cardinality(Handles(e))
              /\ def[e].refcount # 0
            BY <1>4, <1>9 DEF OperatorInv
        <3>2. CASE e = c
            <4>1. /\ IsFiniteSet(Handles(c) \ {<<l, 0>>})
                  /\ Cardinality(Handles(c) \ {<<l, 0>>}) = Cardinality(Handles(c)) - 1
                BY <1>5, FS_RemoveElement, Zenon
            <4>2. IsFiniteSet(Handles(c)') /\ Cardinality(Handles(c)') = n - 1
                BY <1>5, <1>11, <4>1
            <4>. QED
                BY <1>6, <1>7, <3>1, <3>2, <4>2
        <3>3. CASE e # c
            BY <1>7, <1>10, <1>12, <3>1, <3>3
        <3>. QED
            BY <3>2, <3>3
    <2>. QED
        BY <1>3, <2>1 DEF OperatorInv
<1>17. LookupInv'
    BY <1>3, <1>4, <1>9, <1>10 DEF LookupInv
<1>18. ViewInv'
    <2>1. \A e \in Defs : def'[e].refcount > 0 <=> def[e].refcount > 0
        BY <1>2, <1>3, <1>6, <1>7
    <2>. QED
        BY <1>3, <1>4, <2>1 DEF ViewInv
<1>19. KernelInv'
    BY <1>3 DEF DispatcherInv, KernelInv, Registered
<1>. QED
    BY <1>13, <1>14, <1>15, <1>16, <1>17, <1>18, <1>19 DEF DispatcherInv

\* The last handle finds no kernel: each belongs to a registrar, which would
\* hold another handle.
LEMMA LastHandleNoKernel ==
    ASSUME DispatcherInv, NEW l \in Libs, NEW c, c = cur[l], pc[l] = "releasing",
           def[c].refcount = 1
    PROVE  kernels[c] = {}
<1>1. c \in Defs /\ Handles(c) = {<<l, 0>>}
    BY LastHandle
<1>2. ASSUME NEW k \in kernels[c] PROVE FALSE
    <2>1. PICK u \in Libs : \E r \in Registered(u) : r.op = c /\ r.kernel = k
        BY <1>1 DEF DispatcherInv, KernelInv
    <2>2. k \in Handles(c)
        BY <2>1 DEF Handles, HandlesOf, Registered
    <2>3. k[2] \in 1..Len(Plan[u])
        BY <2>1 DEF DispatcherInv, RegistrarsOf
    <2>. QED
        BY <1>1, <2>2, <2>3
<1>. QED
    BY <1>2

\* A table with a kernel is that of an operator in the list.
LEMMA InvGivesClean == DispatcherInv => LastReleaseIsClean
<1>. SUFFICES ASSUME DispatcherInv PROVE LastReleaseIsClean
    OBVIOUS
<1>1. \A l \in Libs : pc[l] = "releasing" /\ def[cur[l]].refcount = 1 => kernels[cur[l]] = {}
    BY LastHandleNoKernel
<1>2. \A d \in Defs : kernels[d] # {} => d \in operators
    BY DEF DispatcherInv, KernelInv, RegistrarsOf, Fits
<1>. QED
    BY <1>1, <1>2 DEF LastReleaseIsClean

\* The last handle is given back: the operator leaves the list, and nobody
\* else can have had it.
LEMMA RemoveSchemaInv ==
    ASSUME DispatcherInv, NEW l \in Libs, RemoveSchema(l)
    PROVE  DispatcherInv'
<1>1. PICK c : c = cur[l]
    OBVIOUS
<1>2. /\ pc[l] = "releasing" /\ mutex = None /\ def[c].refcount = 1
      /\ mutex' = l /\ pc' = [pc EXCEPT ![l] = "erasing"]
      /\ CallListeners(c, 0 - 1) /\ operators' = operators \ {c} /\ SetRefcount(c, 0)
      /\ UNCHANGED <<kernels, lookup, cur, registrars, loads, attached>>
    BY <1>1 DEF RemoveSchema, Goto
<1>3. Types /\ MutexInv /\ LookupInv /\ OperatorInv /\ ViewInv /\ RegistrarsOf(l)
    BY DEF DispatcherInv
<1>4. c \in operators /\ c \in Defs /\ def[c] \in Entries /\ Handles(c) = {<<l, 0>>}
    BY <1>1, <1>2, LastHandle
<1>5. /\ def' \in [Defs -> Entries \cup {None}]
      /\ def'[c] \in Entries /\ def'[c].name = def[c].name
      /\ def'[c].schema = def[c].schema /\ def'[c].refcount = 0
      /\ \A e \in Defs \ {c} : def'[e] = def[e]
    BY <1>2, <1>3, <1>4, SetRefcountFacts
<1>6. pc'[l] = "erasing" /\ cur'[l] = c /\ OnlyLib(l)
    BY <1>1, <1>2, <1>3 DEF Types, TypeOK, OnlyLib
<1>7. \A u \in Libs : pc[u] \notin {"counting", "erasing"}
    BY <1>2, NoHolder
<1>8. \A e \in operators \ {c} : /\ e \in Defs /\ e \in operators' /\ def'[e] = def[e]
                                 /\ def[e] \in Entries
    BY <1>2, <1>3, <1>5 DEF OperatorInv, Types, TypeOK
<1>9. \A u \in Libs : \A r \in Registered(u) : r.op # c
    <2>1. ASSUME NEW u \in Libs, NEW r \in Registered(u), r.op = c PROVE FALSE
        <3>1. r.kernel \in Handles(c)
            BY <2>1 DEF Handles, HandlesOf, Registered
        <3>2. r.kernel[2] \in 1..Len(Plan[u])
            BY DEF DispatcherInv, RegistrarsOf
        <3>. QED
            BY <1>4, <3>1, <3>2
    <2>. QED
        BY <2>1
<1>10. \A u \in Libs \ {l} : pc[u] \in {"kernel", "releasing"} => cur[u] # c
    <2>1. ASSUME NEW u \in Libs \ {l}, pc[u] \in {"kernel", "releasing"}, cur[u] = c PROVE FALSE
        <3>1. <<u, 0>> \in Handles(c)
            BY <2>1, OwnHandle
        <3>. QED
            BY <1>4, <3>1
    <2>. QED
        BY <2>1
<1>11. ASSUME NEW e, e # c PROVE Handles(e)' = Handles(e)
    <2>1. HandlesOf(l, e)' = HandlesOf(l, e)
        BY <1>1, <1>2, <1>6, <1>11 DEF HandlesOf
    <2>. QED
        BY <1>6, <2>1, LibHandles
<1>12. view' \in [Listeners -> [Defs -> Int]] /\ ViewInv'
    <2>1. view \in [Listeners -> [Defs -> Int]]
        BY <1>3 DEF Types
    <2>2. view' = [x \in Listeners |->
             IF x \in attached THEN [view[x] EXCEPT ![c] = @ + (0 - 1)] ELSE view[x]]
        BY <1>2 DEF CallListeners
    <2>3. ASSUME NEW x \in Listeners
          PROVE  /\ view'[x] \in [Defs -> Int]
                 /\ \A e \in Defs : view'[x][e] =
                       IF x \in attached /\ e = c THEN view[x][e] - 1 ELSE view[x][e]
        BY <1>4, <2>1, <2>2
    <2>4. \A x \in Listeners : view[x][c] = IF x \in attached THEN 1 ELSE 0
        <3>1. def[c].refcount > 0
            BY <1>2
        <3>. QED
            BY <1>3, <1>4, <3>1 DEF ViewInv
    <2>5. \A x \in Listeners : view'[x][c] = 0
        BY <1>4, <2>3, <2>4
    <2>6. \A x \in Listeners : \A e \in Defs \ {c} : view'[x][e] = view[x][e]
        BY <2>3
    <2>7. ViewInv'
        BY <1>2, <1>3, <1>5, <2>5, <2>6 DEF ViewInv
    <2>. QED
        BY <2>2, <2>3, <2>7
<1>13. Types'
    <2>1. \A e \in Defs : def'[e] = None \/ def'[e] \in [name : Names, schema : Schemas, refcount : Nat]
        BY <1>5 DEF Entries
    <2>. QED
        BY <1>2, <1>3, <1>5, <1>12, <2>1 DEF Types, TypeOK
<1>14. MutexInv'
    BY <1>2, <1>6, <1>7, DefsAssumption DEF MutexInv, OnlyLib
<1>15. ASSUME NEW u \in Libs PROVE RegistrarsOf(u)' /\ CurrentOf(u)'
    <2>1. CASE u = l
        <3>1. Registered(l)' = Registered(l)
            BY <1>2 DEF Registered
        <3>2. \A asked : \A e \in operators \ {c} : Fits(e, asked) => Fits(e, asked)'
            BY <1>8 DEF Fits
        <3>3. \A r \in Registered(l) : Fits(r.op, Plan[l][r.kernel[2]])'
            BY <1>3, <1>9, <3>2 DEF RegistrarsOf, Fits
        <3>4. CurrentOf(l)'
            BY <1>2, <1>3, <1>4, <1>5, <1>6 DEF CurrentOf, OperatorInv
        <3>. QED
            BY <1>2, <1>3, <1>6, <2>1, <3>1, <3>3, <3>4 DEF RegistrarsOf
    <2>2. CASE u # l
        <3>1. PICK gone : gone = {c}
            OBVIOUS
        <3>2. registrars'[u] = registrars[u] /\ pc'[u] = pc[u] /\ cur'[u] = cur[u]
            BY <1>6, <2>2 DEF OnlyLib
        <3>3. /\ \A r \in Registered(u) : r.op \notin gone
              /\ pc[u] \in {"counting", "kernel", "releasing"} => cur[u] \notin gone
              /\ pc[u] # "erasing"
            BY <1>7, <1>9, <1>10, <2>2, <3>1
        <3>4. \A e \in operators \ gone :
                 /\ e \in operators' /\ def'[e] \in Entries
                 /\ def'[e].name = def[e].name /\ def'[e].schema = def[e].schema
            BY <1>8, <3>1
        <3>. QED
            BY <3>2, <3>3, <3>4, OthersKeep
    <2>. QED
        BY <2>1, <2>2
<1>16. OperatorInv'
    <2>1. ASSUME NEW e \in operators'
          PROVE  /\ def'[e] \in Entries /\ lookup[def'[e].name] = e
                 /\ IsFiniteSet(Handles(e)') /\ def'[e].refcount = Cardinality(Handles(e)')
                 /\ def'[e].refcount # 0
        <3>1. e \in operators /\ e # c
            BY <1>2
        <3>2. /\ lookup[def[e].name] = e
              /\ IsFiniteSet(Handles(e)) /\ def[e].refcount = Cardinality(Handles(e))
              /\ def[e].refcount # 0
            BY <1>3, <1>7, <3>1 DEF OperatorInv
        <3>. QED
            BY <1>8, <1>11, <3>1, <3>2
    <2>. QED
        BY <1>2, <2>1 DEF OperatorInv
<1>17. LookupInv'
    <2>1. ASSUME NEW m \in Names, lookup[m] # None
          PROVE  /\ def'[lookup[m]] \in Entries /\ def'[lookup[m]].name = m
                 /\ lookup[m] \in operators' \/ (pc'[l] = "erasing" /\ cur'[l] = lookup[m])
        <3>1. lookup[m] \in operators /\ def[lookup[m]].name = m
            BY <1>3, <1>7, <2>1 DEF LookupInv
        <3>2. CASE lookup[m] = c
            BY <1>5, <1>6, <3>1, <3>2
        <3>3. CASE lookup[m] # c
            BY <1>8, <3>1, <3>3
        <3>. QED
            BY <3>2, <3>3
    <2>. QED
        BY <1>2, <2>1 DEF LookupInv
<1>18. KernelInv'
    BY <1>2 DEF DispatcherInv, KernelInv, Registered
<1>. QED
    BY <1>12, <1>13, <1>14, <1>15, <1>16, <1>17, <1>18 DEF DispatcherInv

\* The name goes with the operator it led to.
LEMMA EraseNameInv ==
    ASSUME DispatcherInv, NEW l \in Libs, EraseName(l)
    PROVE  DispatcherInv'
<1>1. PICK c : c = cur[l]
    OBVIOUS
<1>2. PICK n : n = def[c].name
    OBVIOUS
<1>3. /\ pc[l] = "erasing" /\ mutex' = None /\ pc' = [pc EXCEPT ![l] = "unloading"]
      /\ lookup' = [lookup EXCEPT ![n] = None] /\ def' = [def EXCEPT ![c] = None]
      /\ cur' = [cur EXCEPT ![l] = None]
      /\ UNCHANGED <<operators, kernels, registrars, loads, attached, view>>
    BY <1>1, <1>2 DEF EraseName, Goto
<1>4. Types /\ MutexInv /\ LookupInv /\ OperatorInv /\ ViewInv /\ RegistrarsOf(l)
    BY DEF DispatcherInv
<1>5. c \in Defs /\ c \notin operators /\ n \in Names /\ lookup[n] = c
    BY <1>1, <1>2, <1>3 DEF DispatcherInv, CurrentOf, Entries
<1>6. /\ \A e \in Defs \ {c} : def'[e] = def[e]
      /\ \A m \in Names \ {n} : lookup'[m] = lookup[m]
      /\ lookup'[n] = None
    BY <1>3, <1>4, <1>5 DEF Types, TypeOK
<1>7. pc'[l] = "unloading" /\ cur'[l] = None /\ OnlyLib(l)
    BY <1>3, <1>4 DEF Types, TypeOK, OnlyLib
<1>8. \A u \in Libs \ {l} : pc[u] \notin {"counting", "erasing"}
    BY <1>3, OnlyHolder
<1>9. \A e \in operators : e \in Defs /\ e # c /\ def'[e] = def[e] /\ def[e] \in Entries
    BY <1>4, <1>5, <1>6 DEF OperatorInv, Types, TypeOK
<1>10. \A e : Handles(e)' = Handles(e)
    BY <1>3, <1>7, HandlesSame DEF OnlyLib
<1>11. Types'
    <2>1. def' \in [Defs -> Entries \cup {None}]
        BY <1>3, <1>4 DEF Types
    <2>2. \A e \in Defs : def'[e] = None \/ def'[e] \in [name : Names, schema : Schemas, refcount : Nat]
        BY <2>1 DEF Entries
    <2>. QED
        BY <1>3, <1>4, <2>1, <2>2 DEF Types, TypeOK
<1>12. MutexInv'
    BY <1>3, <1>7, <1>8, DefsAssumption DEF MutexInv, OnlyLib
<1>13. ASSUME NEW u \in Libs PROVE RegistrarsOf(u)' /\ CurrentOf(u)'
    <2>1. CASE u = l
        <3>1. Registered(l)' = Registered(l)
            BY <1>3 DEF Registered
        <3>2. \A asked : \A e \in operators : Fits(e, asked) => Fits(e, asked)'
            BY <1>3, <1>9 DEF Fits
        <3>3. \A r \in Registered(l) : Fits(r.op, Plan[l][r.kernel[2]])'
            BY <1>4, <3>2 DEF RegistrarsOf, Fits
        <3>. QED
            BY <1>3, <1>4, <1>7, <2>1, <3>1, <3>3 DEF RegistrarsOf, CurrentOf
    <2>2. CASE u # l
        BY <1>3, <1>7, <1>8, <1>9, <2>2, OthersStay DEF OnlyLib
    <2>. QED
        BY <2>1, <2>2
<1>14. OperatorInv'
    <2>1. ASSUME NEW e \in operators
          PROVE  lookup'[def[e].name] = e /\ def[e].refcount # 0
        <3>1. lookup[def[e].name] = e /\ def[e].name \in Names /\ def[e].name # n
            BY <1>4, <1>5, <1>9 DEF OperatorInv, Entries
        <3>2. def[e].refcount # 0
            BY <1>3, <1>4, <1>8 DEF OperatorInv
        <3>. QED
            BY <1>6, <3>1, <3>2
    <2>. QED
        BY <1>3, <1>4, <1>9, <1>10, <2>1 DEF OperatorInv
<1>15. LookupInv'
    <2>1. ASSUME NEW m \in Names, lookup'[m] # None
          PROVE  /\ lookup'[m] \in operators
                 /\ def'[lookup'[m]] \in Entries /\ def'[lookup'[m]].name = m
        <3>1. m # n /\ lookup'[m] = lookup[m]
            BY <1>6, <2>1
        <3>2. lookup[m] # c /\ def[lookup[m]].name = m
            BY <1>2, <1>4, <2>1, <3>1 DEF LookupInv
        <3>3. lookup[m] \in operators
            BY <1>1, <1>4, <1>8, <2>1, <3>1, <3>2 DEF LookupInv
        <3>. QED
            BY <1>9, <3>1, <3>2, <3>3
    <2>. QED
        BY <1>3, <2>1 DEF LookupInv
<1>16. ViewInv'
    BY <1>3, <1>4, <1>9 DEF ViewInv
<1>17. KernelInv'
    BY <1>3 DEF DispatcherInv, KernelInv, Registered
<1>. QED
    BY <1>11, <1>12, <1>13, <1>14, <1>15, <1>16, <1>17 DEF DispatcherInv

-----------------------------------------------------------------------------
\* Every step keeps the invariant.
LEMMA DispatcherStep == DispatcherInv /\ [Next]_vars => DispatcherInv'
<1>. SUFFICES ASSUME DispatcherInv, [Next]_vars PROVE DispatcherInv'
    OBVIOUS
<1>1. ASSUME NEW l \in Libs, StartLoad(l) \/ LibStep(l) \/ StartUnload(l)
      PROVE  DispatcherInv'
    BY <1>1, MovesInv, FindSchemaInv, AddSchemaInv, CountReferenceInv, AddKernelInv, RejectKernelInv,
       DropKernelInv, ReleaseReferenceInv, RemoveSchemaInv, EraseNameInv
    DEF LibStep
<1>2. CASE UNCHANGED vars
    <2>1. UNCHANGED <<operators, def, kernels, lookup, mutex, pc, cur, registrars, loads,
                     attached, view>>
        BY <1>2 DEF vars
    <2>2. \A u \in Libs : RegistrarsOf(u)' /\ CurrentOf(u)'
        <3>1. \A e : \A asked : Fits(e, asked)' <=> Fits(e, asked)
            BY <2>1 DEF Fits
        <3>. QED
            BY <2>1, <3>1 DEF DispatcherInv, RegistrarsOf, CurrentOf, Registered, Step
    <2>3. \A e : Handles(e)' = Handles(e)
        BY <2>1, HandlesSame
    <2>4. OperatorInv' /\ LookupInv'
        BY <2>1, <2>3 DEF DispatcherInv, OperatorInv, LookupInv
    <2>5. Types' /\ MutexInv' /\ KernelInv' /\ ViewInv'
        BY <2>1 DEF DispatcherInv, Types, TypeOK, MutexInv, KernelInv, ViewInv,
                    Registered
    <2>. QED
        BY <2>2, <2>4, <2>5 DEF DispatcherInv
<1>. QED
    BY <1>1, <1>2, AddListenerInv DEF Next

\* registerSchema and deregisterSchema_ keep the list, the counts, the lookup
\* table, the handles and the listeners' knowledge together.
THEOREM DispatcherInvariance == Spec => []DispatcherInv
<1>. QED
    BY DispatcherInit, DispatcherStep, PTL DEF Spec

\* Outside the mutex an operator is there exactly as long as some library
\* holds a handle, is counted right, and is found under its name.
THEOREM OperatorsLiveAsHandles == Spec => []HandlesOwnOperators
<1>1. DispatcherInv => HandlesOwnOperators
    BY InvGivesProperties
<1>. QED
    BY <1>1, DispatcherInvariance, PTL

\* However late it is attached, a listener has heard of every operator once.
THEOREM ListenersHearAll == Spec => []ListenersKnow
<1>1. DispatcherInv => ListenersKnow
    BY InvGivesProperties
<1>. QED
    BY <1>1, DispatcherInvariance, PTL

\* deregisterSchema_'s assertion on the dispatch table never fails in a
\* destructor, and no kernel is left in the table of an operator that is gone.
THEOREM LastHandleIsClean == Spec => []LastReleaseIsClean
<1>. QED
    BY InvGivesClean, DispatcherInvariance, PTL
=============================================================================
