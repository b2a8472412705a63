------------------------------ MODULE Dispatcher ------------------------------
(***************************************************************************)
(* c10::Dispatcher's operators and the libraries that register them.       *)
(* operators_ is a list of reference-counted operator definitions changed  *)
(* under mutex_; operatorLookupTable_ maps names to handles (iterators     *)
(* into that list) and is read without a lock.  A library is a             *)
(* RegisterOperators object: loading it constructs one OperatorRegistrar   *)
(* per kernel of its plan (or one with the schema only), each registering  *)
(* the schema and then the kernel; unloading it, or an exception while     *)
(* loading, destroys the registrars it has.  The kernel tables themselves  *)
(* are OperatorEntry's; here an operator has the set of its kernels.       *)
(***************************************************************************)
EXTENDS Integers, Sequences, FiniteSets, SequencesExt

CONSTANTS Libs,      \* RegisterOperators objects, each loaded by a thread
          Plan,      \* Plan[l] is the sequence of registrars l constructs
          Names,     \* OperatorName
          Schemas,   \* FunctionSchema together with OperatorOptions
          Defs,      \* list nodes operators_ may use
          Listeners, \* OpRegistrationListener objects
          MaxLoads,  \* how often a library is loaded, at most
          None

ASSUME DefsAssumption == None \notin Libs \cup Defs /\ MaxLoads \in Nat
ASSUME PlanAssumption ==
    \A l \in Libs : Plan[l] \in
        Seq([name : Names, schema : Schemas, kernel : {"none", "valid", "undefined"}])

VARIABLES
    operators,  \* operators_: the nodes in the list
    def,        \* their name, schema and refcount
    kernels,    \* the kernels in each operator's table
    lookup,     \* operatorLookupTable_
    mutex,      \* the library inside registerSchema or deregisterSchema_
    pc,         \* what each library is doing
    cur,        \* the handle of the registrar being constructed or destroyed
    registrars, \* registrars_: the definitions and kernels a library holds
    loads,      \* how often it was loaded
    attached,   \* the listeners in listeners_
    view        \* how often each listener counts each operator as registered

vars == <<operators, def, kernels, lookup, mutex, pc, cur, registrars,
          loads, attached, view>>

Init ==
    /\ operators = {}
    /\ def = [d \in Defs |-> None]
    /\ kernels = [d \in Defs |-> {}]
    /\ lookup = [n \in Names |-> None]
    /\ mutex = None
    /\ pc = [l \in Libs |-> "out"]
    /\ cur = [l \in Libs |-> None]
    /\ registrars = [l \in Libs |-> <<>>]
    /\ loads = [l \in Libs |-> 0]
    /\ attached = {}
    /\ view = [x \in Listeners |-> [d \in Defs |-> 0]]

Goto(l, label) == pc' = [pc EXCEPT ![l] = label]

\* The registrar library l constructs next.
Step(l) == Plan[l][Len(registrars[l]) + 1]

-----------------------------------------------------------------------------
StartLoad(l) ==
    /\ pc[l] = "out" /\ loads[l] < MaxLoads
    /\ loads' = [loads EXCEPT ![l] = @ + 1]
    /\ Goto(l, "loading")
    /\ UNCHANGED <<operators, def, kernels, lookup, mutex, cur, registrars,
                   attached, view>>

\* Faulty variant: the schema that is found is not compared.
FindAnySchema(l) ==
    /\ pc[l] = "loading" /\ Len(registrars[l]) < Len(Plan[l]) /\ mutex = None
    /\ lookup[Step(l).name] # None
    /\ mutex' = l
    /\ cur' = [cur EXCEPT ![l] = lookup[Step(l).name]]
    /\ Goto(l, "counting")
    /\ UNCHANGED <<operators, def, kernels, lookup, registrars, loads, attached,
                   view>>

\* registerSchema takes mutex_; findOrRegisterSchema_ finds the operator ...
FindSchema(l) ==
    /\ pc[l] = "loading" /\ Len(registrars[l]) < Len(Plan[l]) /\ mutex = None
    /\ lookup[Step(l).name] # None
    /\ def[lookup[Step(l).name]].schema = Step(l).schema
    /\ mutex' = l
    /\ cur' = [cur EXCEPT ![l] = lookup[Step(l).name]]
    /\ Goto(l, "counting")
    /\ UNCHANGED <<operators, def, kernels, lookup, registrars, loads, attached,
                   view>>

\* ... or finds another schema or other options under its name, and throws:
\* the registrars constructed so far are destroyed ...
RejectSchema(l) ==
    /\ pc[l] = "loading" /\ Len(registrars[l]) < Len(Plan[l]) /\ mutex = None
    /\ lookup[Step(l).name] # None
    /\ def[lookup[Step(l).name]].schema # Step(l).schema
    /\ Goto(l, "unloading")
    /\ UNCHANGED <<operators, def, kernels, lookup, mutex, cur, registrars, loads,
                   attached, view>>

\* ... or adds it to the list and publishes it, still without a reference.
AddSchema(l) ==
    /\ pc[l] = "loading" /\ Len(registrars[l]) < Len(Plan[l]) /\ mutex = None
    /\ lookup[Step(l).name] = None
    /\ mutex' = l
    /\ \E d \in Defs \ operators :
          /\ operators' = operators \cup {d}
          /\ def' = [def EXCEPT ![d] =
                       [name |-> Step(l).name, schema |-> Step(l).schema, refcount |-> 0]]
          /\ lookup' = [lookup EXCEPT ![Step(l).name] = d]
          /\ cur' = [cur EXCEPT ![l] = d]
    /\ Goto(l, "counting")
    /\ UNCHANGED <<kernels, registrars, loads, attached, view>>

SetRefcount(d, n) ==
    def' = [def EXCEPT ![d] = [name |-> def[d].name, schema |-> def[d].schema, refcount |-> n]]

\* listeners_ are told of the operator; only those attached are in the list.
CallListeners(d, delta) ==
    view' = [x \in Listeners |->
               IF x \in attached THEN [view[x] EXCEPT ![d] = @ + delta] ELSE view[x]]

\* Faulty variants: only the first registration is counted; every
\* registration is announced.
CountFirstOnly(l) ==
    /\ pc[l] = "counting"
    /\ SetRefcount(cur[l], 1)
    /\ IF def[cur[l]].refcount = 0 THEN CallListeners(cur[l], 1) ELSE UNCHANGED view
    /\ mutex' = None
    /\ Goto(l, "kernel")
    /\ UNCHANGED <<operators, kernels, lookup, cur, registrars, loads, attached>>

CountAndAnnounce(l) ==
    /\ pc[l] = "counting"
    /\ SetRefcount(cur[l], def[cur[l]].refcount + 1)
    /\ CallListeners(cur[l], 1)
    /\ mutex' = None
    /\ Goto(l, "kernel")
    /\ UNCHANGED <<operators, kernels, lookup, cur, registrars, loads, attached>>

\* The rest of registerSchema: the first reference makes the listeners hear
\* of it, the mutex is released, a handle is returned.
CountReference(l) ==
    /\ pc[l] = "counting"
    /\ SetRefcount(cur[l], def[cur[l]].refcount + 1)
    /\ IF def[cur[l]].refcount = 0 THEN CallListeners(cur[l], 1) ELSE UNCHANGED view
    /\ mutex' = None
    /\ Goto(l, "kernel")
    /\ UNCHANGED <<operators, kernels, lookup, cur, registrars, loads, attached>>

\* registerKernel or registerCatchallKernel, without mutex_; the registrar is
\* complete and kept in registrars_.
AddKernel(l) ==
    /\ pc[l] = "kernel" /\ Step(l).kernel # "undefined"
    /\ LET k == <<l, Len(registrars[l]) + 1>> IN
       /\ registrars' = [registrars EXCEPT ![l] = Append(@, [op |-> cur[l], kernel |-> k])]
       /\ kernels' = IF Step(l).kernel = "valid"
                     THEN [kernels EXCEPT ![cur[l]] = @ \cup {k}]
                     ELSE kernels
    /\ cur' = [cur EXCEPT ![l] = None]
    /\ Goto(l, "loading")
    /\ UNCHANGED <<operators, def, lookup, mutex, loads, attached, view>>

\* A kernel for the undefined key: OperatorEntry keeps the list element, which
\* nothing looks at again, and throws; the table is as before, and the
\* constructor, without a kernel handle, destroys op_.
RejectKernel(l) ==
    /\ pc[l] = "kernel" /\ Step(l).kernel = "undefined"
    /\ Goto(l, "releasing")
    /\ UNCHANGED <<operators, def, kernels, lookup, mutex, cur, registrars, loads, attached,
                   view>>

Loaded(l) ==
    /\ pc[l] = "loading" /\ Len(registrars[l]) = Len(Plan[l])
    /\ Goto(l, "in")
    /\ UNCHANGED <<operators, def, kernels, lookup, mutex, cur, registrars, loads,
                   attached, view>>

StartUnload(l) ==
    /\ pc[l] = "in"
    /\ Goto(l, "unloading")
    /\ UNCHANGED <<operators, def, kernels, lookup, mutex, cur, registrars, loads,
                   attached, view>>

\* Faulty variant: the kernel's handle is overwritten, so that its callback
\* never runs.
DropKernelHandle(l) ==
    /\ pc[l] = "unloading"
    /\ \E i \in DOMAIN registrars[l] :
          /\ cur' = [cur EXCEPT ![l] = registrars[l][i].op]
          /\ registrars' = [registrars EXCEPT ![l] = RemoveAt(@, i)]
    /\ Goto(l, "releasing")
    /\ UNCHANGED <<operators, def, kernels, lookup, mutex, loads, attached, view>>

\* A registrar of the vector is destroyed, in no particular order: first its
\* kernel handle, the member declared last ...
DropKernel(l) ==
    /\ pc[l] = "unloading"
    /\ \E i \in DOMAIN registrars[l] :
          LET r == registrars[l][i] IN
          /\ kernels' = [kernels EXCEPT ![r.op] = @ \ {r.kernel}]
          /\ cur' = [cur EXCEPT ![l] = r.op]
          /\ registrars' = [registrars EXCEPT ![l] = RemoveAt(@, i)]
    /\ Goto(l, "releasing")
    /\ UNCHANGED <<operators, def, lookup, mutex, loads, attached, view>>

\* ... then the schema handle: deregisterSchema_ gives one reference back ...
ReleaseReference(l) ==
    /\ pc[l] = "releasing" /\ mutex = None /\ def[cur[l]].refcount > 1
    /\ SetRefcount(cur[l], def[cur[l]].refcount - 1)
    /\ cur' = [cur EXCEPT ![l] = None]
    /\ Goto(l, "unloading")
    /\ UNCHANGED <<operators, kernels, lookup, mutex, registrars, loads, attached,
                   view>>

\* ... and with the last one removes the operator from the list, after
\* prepareForDeregistration has found the table empty, which is all it looks
\* at, and the listeners know ...
RemoveSchema(l) ==
    /\ pc[l] = "releasing" /\ mutex = None /\ def[cur[l]].refcount = 1
    /\ kernels[cur[l]] = {}
    /\ CallListeners(cur[l], 0 - 1)
    /\ operators' = operators \ {cur[l]}
    /\ SetRefcount(cur[l], 0)
    /\ mutex' = l
    /\ Goto(l, "erasing")
    /\ UNCHANGED <<kernels, lookup, cur, registrars, loads, attached>>

\* Faulty variants: the name stays in the lookup table; the mutex stays locked.
EraseNothing(l) ==
    /\ pc[l] = "erasing"
    /\ def' = [def EXCEPT ![cur[l]] = None]
    /\ cur' = [cur EXCEPT ![l] = None]
    /\ mutex' = None
    /\ Goto(l, "unloading")
    /\ UNCHANGED <<operators, kernels, lookup, registrars, loads, attached, view>>

EraseKeepsLock(l) ==
    /\ pc[l] = "erasing"
    /\ lookup' = [lookup EXCEPT ![def[cur[l]].name] = None]
    /\ def' = [def EXCEPT ![cur[l]] = None]
    /\ cur' = [cur EXCEPT ![l] = None]
    /\ Goto(l, "unloading")
    /\ UNCHANGED <<operators, kernels, mutex, registrars, loads, attached, view>>

\* The name leaves the lookup table and deregisterSchema_ returns.
EraseName(l) ==
    /\ pc[l] = "erasing"
    /\ lookup' = [lookup EXCEPT ![def[cur[l]].name] = None]
    /\ def' = [def EXCEPT ![cur[l]] = None]
    /\ cur' = [cur EXCEPT ![l] = None]
    /\ mutex' = None
    /\ Goto(l, "unloading")
    /\ UNCHANGED <<operators, kernels, registrars, loads, attached, view>>

Unloaded(l) ==
    /\ pc[l] = "unloading" /\ registrars[l] = <<>>
    /\ Goto(l, "out")
    /\ UNCHANGED <<operators, def, kernels, lookup, mutex, cur, registrars, loads,
                   attached, view>>

\* addRegistrationListener: the listener hears of every operator there is.
AddListener(x) ==
    /\ x \notin attached /\ mutex = None
    /\ attached' = attached \cup {x}
    /\ view' = [view EXCEPT ![x] = [d \in Defs |-> IF d \in operators THEN @[d] + 1 ELSE @[d]]]
    /\ UNCHANGED <<operators, def, kernels, lookup, mutex, pc, cur, registrars, loads>>

LibStep(l) ==
    \/ FindSchema(l) \/ RejectSchema(l) \/ AddSchema(l) \/ CountReference(l)
    \/ AddKernel(l) \/ RejectKernel(l) \/ Loaded(l)
    \/ DropKernel(l) \/ ReleaseReference(l) \/ RemoveSchema(l)
    \/ EraseName(l) \/ Unloaded(l)

Next ==
    \/ \E l \in Libs : StartLoad(l) \/ LibStep(l) \/ StartUnload(l)
    \/ \E x \in Listeners : AddListener(x)

Spec == Init /\ [][Next]_vars

\* A thread inside a constructor or destructor goes on when it can.  Mutexes
\* are not fair; MaxLoads bounds how often they are contended.
FairSpec == Spec /\ \A l \in Libs : WF_vars(LibStep(l))

-----------------------------------------------------------------------------
\* Every variable has its type.
TypeOK ==
    /\ operators \subseteq Defs
    /\ \A d \in Defs :
          def[d] = None \/ def[d] \in [name : Names, schema : Schemas, refcount : Nat]
    /\ attached \subseteq Listeners
    /\ lookup \in [Names -> Defs \cup {None}]
    /\ mutex \in Libs \cup {None}
    /\ pc \in [Libs -> {"out", "loading", "counting", "kernel", "in", "unloading", "releasing", "erasing"}]
    /\ cur \in [Libs -> Defs \cup {None}]
    /\ loads \in [Libs -> 0..MaxLoads]

\* The handles of an operator that libraries hold: one for each registrar,
\* known by its kernel, and, between registerSchema and the registrar's end,
\* the one a library is working on.
HandlesOf(l, d) ==
    {r.kernel : r \in {r \in ToSet(registrars[l]) : r.op = d}}
        \cup {h \in {<<l, 0>>} : pc[l] \in {"kernel", "releasing"} /\ cur[l] = d}
Handles(d) == UNION {HandlesOf(l, d) : l \in Libs}

\* Whoever holds a handle finds the operator registered under its name, the
\* same one, with the schema it was registered with: what registerOp_ asserts
\* at its end (op_registration.cpp:148) stays true until the unload,
\* whatever other libraries load, fail to load or unload meanwhile.
HoldersFind ==
    \A l \in Libs : \A i \in DOMAIN registrars[l] :
        LET d == registrars[l][i].op
            asked == Plan[l][registrars[l][i].kernel[2]] IN
        /\ d \in operators /\ lookup[asked.name] = d
        /\ def[d].name = asked.name /\ def[d].schema = asked.schema

\* Every variable has its type, holders find their operator and, outside
\* mutex_, an operator is in the list exactly as long as somebody holds a
\* handle, is counted as often as handles exist, and is what the lookup table
\* has under its name, and nothing else is.
HandlesOwnOperators ==
    /\ TypeOK
    /\ HoldersFind
    /\ mutex = None =>
          /\ \A d \in Defs : d \in operators <=> Handles(d) # {}
          /\ \A d \in operators : def[d].refcount = Cardinality(Handles(d)) /\ lookup[def[d].name] = d
          /\ \A n \in Names : lookup[n] # None => lookup[n] \in operators /\ def[lookup[n]].name = n

\* Outside mutex_, each attached listener has heard of every operator once,
\* and of no other, however late it was attached.
ListenersKnow ==
    mutex = None =>
        \A x \in attached : \A d \in Defs : view[x][d] = IF d \in operators THEN 1 ELSE 0

\* "Tried to deregister op schema for an operator that still has kernels
\* registered" (OperatorEntry.cpp:31) would be thrown in a destructor.  It
\* never is: whoever gives the last handle back finds the table empty, since a
\* registrar destroys its kernel's handle before the schema's and a refused
\* kernel is in no table; and no table outlives its list node, which the
\* callbacks of the kernels' handles refer to.
LastReleaseIsClean ==
    /\ \A l \in Libs : pc[l] = "releasing" /\ def[cur[l]].refcount = 1 => kernels[cur[l]] = {}
    /\ \A d \in Defs : kernels[d] # {} => d \in operators

\* "Looks for an operator schema ... and returns it if it is registered"
\* (Dispatcher.h:68): what the lock-free findSchema may read at any moment
\* is a handle to an operator in the list.
FoundIsRegistered == \A n \in Names : lookup[n] # None => lookup[n] \in operators

\* A library that began loading ends loaded or, after an exception, gone with
\* nothing left behind; one that began unloading ends gone, also after a
\* kernel of an operator it shares was refused.
LoadsEnd ==
    \A l \in Libs :
        /\ pc[l] = "loading" ~> pc[l] \in {"in", "out"}
        /\ pc[l] = "unloading" ~> pc[l] = "out"
=============================================================================
