------------------------- MODULE MCFuturesAndLoops --------------------------
(***************************************************************************)
(* The instance of what passes values between threads for TLC: a future,   *)
(* of whose three callbacks one throws and one asks the future that runs   *)
(* it; the loops of the native back end, whose tasks end in futures; and   *)
(* the types of values, of which lists of three are unified.  They share   *)
(* no state: Init chooses which is run.                                    *)
(***************************************************************************)
EXTENDS Future, JitType, ParallelNative

CONSTANTS t1, t2, t3, t4, c1, c2, c3, names, otherNames

VARIABLE workload

MCThreads == {t1, t2, t3, t4}
MCCallbacks == {c1, c2, c3}
MCThrowing == {c1}
MCAsking == {c2}

\* Two schemas with the same names, and one with others.
Schemas == {[at |-> 1, names |-> names], [at |-> 2, names |-> names],
            [at |-> 3, names |-> otherNames]}

IntT == Simple("Int")
Shaped == TensorOf("float", <<2, 3>>, FALSE)

BasicTypes ==
    {Simple(k) : k \in {"Int", "Float", "Number", "None", "Any"}}
        \cup {AnyTensor, Shaped, TensorOf("float", <<2, Unknown>>, FALSE),
              TensorOf(Unknown, <<2, 3>>, TRUE)}

Pairs == {<<IntT, Simple("None")>>, <<Simple("Number"), OptionalOf(AnyTensor)>>, <<IntT, Shaped>>}

MCTypes ==
    BasicTypes
        \cup {OptionalOf(t) : t \in BasicTypes} \cup {ListOf(t) : t \in BasicTypes}
        \cup {TupleTypeOf(ts) : ts \in Pairs \cup {<<IntT>>}}
        \cup {Named(ts, s) : ts \in Pairs, s \in Schemas}
        \cup {DictOf(IntT, t) : t \in {AnyTensor, Shaped}}
        \cup {TupleTypeOf(<<ListOf(Shaped), Simple("None")>>), TupleTypeOf(<<ListOf(AnyTensor), IntT>>)}

MCValues ==
    {Simple(k) : k \in {"Int", "Float", "None", "String"}}
        \cup {TensorOf(s, z, u) : s \in {"float", "long"}, z \in {<<2, 3>>, <<2, 4>>, <<2>>}, u \in BOOLEAN}
        \cup {ListOf(t) : t \in BasicTypes}
        \cup {Named(<<IntT, x>>, s) : x \in {Simple("None"), Shaped}, s \in Schemas \cup {Plain}}
        \cup {DictOf(IntT, t) : t \in {AnyTensor, IntT}}
        \cup {TupleTypeOf(<<ListOf(AnyTensor), x>>) : x \in {IntT, Simple("None")}}

mcvars == <<vars, jitVars, parVars, workload>>

MCInit == Init /\ JitInit /\ ParInit /\ workload \in {"future", "types", "loops"}

MCNext ==
    /\ UNCHANGED workload
    /\ \/ workload = "future" /\ Next /\ UNCHANGED <<jitVars, parVars>>
       \/ workload = "types" /\ JitNext /\ UNCHANGED <<vars, parVars>>
       \/ workload = "loops" /\ ParNext /\ UNCHANGED <<vars, jitVars>>

\* The fairness of Future and of ParallelNative.
MCSpec ==
    /\ MCInit /\ [][MCNext]_mcvars
    /\ \A t \in Threads : WF_vars(Step(t))
    /\ \A a \in Agents : WF_parVars(ParStep(a))
    /\ \A w \in Workers : WF_parVars(TakeTask(w))
=============================================================================
