------------------------------- MODULE JitType -------------------------------
(***************************************************************************)
(* The types of core/jit_type.h: subtyping, and the unification that gives *)
(* the elements of a list one type (unifyTypeList).  A type is a record of *)
(* its kind, the types it contains and its details; of a tensor's details  *)
(* the scalar type stands for those that are merged like it (device,       *)
(* requires_grad), the sizes also for the strides.  Classes, interfaces    *)
(* and type variables are left out.                                        *)
(***************************************************************************)
EXTENDS Naturals, Sequences, SequencesExt

CONSTANTS Unknown,        \* an empty optional: nothing is known, no such type
          Plain,          \* the schema of a tuple without names
          SampleTypes,    \* bound: the types that lists are made of
          MaxElements     \* bound: the elements of a list

VARIABLES elements,       \* the types unifyTypeList has taken
          retType         \* ret_type: their type, if there is one

jitVars == <<elements, retType>>

Type(kind, elems, info) == [kind |-> kind, elems |-> elems, info |-> info]
Simple(kind) == Type(kind, <<>>, Plain)
TensorOf(scalar, sizes, undefined) ==
    Type("Tensor", <<>>, [scalar |-> scalar, sizes |-> sizes, undefined |-> undefined])

\* TensorType::get(): everything is unknown, but that the tensor is defined.
AnyTensor == TensorOf(Unknown, Unknown, FALSE)

ListOf(t) == Type("List", <<t>>, Plain)
DictOf(k, v) == Type("Dict", <<k, v>>, Plain)
TupleTypeOf(ts) == Type("Tuple", ts, Plain)
Named(ts, schema) == Type("Tuple", ts, schema)

\* Optional is a union of [None, T], so that one in another is only one.
OptionalOf(t) == IF t.kind = "Optional" THEN t ELSE Type("Optional", <<t>>, Plain)

\* The names of the fields of a named tuple's schema; schemas are compared by
\* their address for equality, by their names for subtyping.
FieldNames(schema) == IF schema = Plain THEN Plain ELSE schema.names

-----------------------------------------------------------------------------
MergePrimitive(a, b) == IF a = b THEN a ELSE Unknown

MergeShape(a, b) ==
    IF a = Unknown \/ b = Unknown \/ Len(a) # Len(b) THEN Unknown
    ELSE [i \in DOMAIN a |-> MergePrimitive(a[i], b[i])]

Merge(a, b) == TensorOf(MergePrimitive(a.info.scalar, b.info.scalar),
                        MergeShape(a.info.sizes, b.info.sizes),
                        MergePrimitive(a.info.undefined, b.info.undefined))

RECURSIVE Subtype(_, _)

\* Type::isSubtypeOfExt, which each kind of type falls back on.
SubtypeOfAny(a, b) ==
    \/ b.kind = "Any" \/ a = b
    \/ b.kind = "Optional" /\ Subtype(a, b.elems[1])

\* Faulty variant: the names of the fields do not count.
RenamedSubtype(a, b) ==
    /\ a.kind = "Tuple" /\ b.kind = "Tuple"
    /\ b.info = Plain \/ a.info # Plain
    /\ Len(a.elems) = Len(b.elems)
    /\ \A i \in DOMAIN a.elems : Subtype(a.elems[i], b.elems[i])

\* Tuples are covariant; one with names is a subtype of one without, or of one
\* with the same names.
TupleSubtype(a, b) ==
    /\ a.kind = "Tuple" /\ b.kind = "Tuple"
    /\ b.info # Plain => a.info # Plain /\ FieldNames(a.info) = FieldNames(b.info)
    /\ Len(a.elems) = Len(b.elems)
    /\ \A i \in DOMAIN a.elems : Subtype(a.elems[i], b.elems[i])

\* isSubtypeOf.  Lists and dictionaries are invariant.
Subtype(a, b) ==
    IF a.kind = "Tensor" /\ b.kind = "Tensor" THEN Merge(a, b) = b
    ELSE \/ SubtypeOfAny(a, b)
         \/ a.kind \in {"Int", "Float"} /\ b.kind = "Number"
         \/ a.kind = "None" /\ b.kind = "Optional"
         \/ a.kind = "Optional" /\ b.kind = "Optional" /\ Subtype(a.elems[1], b.elems[1])
         \/ TupleSubtype(a, b)

\* Type::withContained
WithContained(t, elems) ==
    IF t.kind = "Optional" THEN OptionalOf(elems[1]) ELSE [t EXCEPT !.elems = elems]

\* Ignoring extra information, except of tensors that may be undefined.
RECURSIVE UnshapedType(_)
UnshapedType(t) ==
    IF Subtype(t, AnyTensor) THEN AnyTensor
    ELSE WithContained(t, [i \in DOMAIN t.elems |-> UnshapedType(t.elems[i])])

TryEitherIsTheSuperType(a, b) ==
    IF Subtype(a, b) THEN b ELSE IF Subtype(b, a) THEN a ELSE Unknown

-----------------------------------------------------------------------------
RECURSIVE UnifyTypes(_, _)

UnifyTuples(a, b) ==
    LET elems == [i \in DOMAIN a.elems |-> UnifyTypes(a.elems[i], b.elems[i])] IN
    IF Len(a.elems) # Len(b.elems) \/ Unknown \in ToSet(elems) THEN Unknown
    ELSE TupleTypeOf(elems)

UnifyDicts(a, b) ==
    LET key == UnifyTypes(a.elems[1], b.elems[1])
        value == TryEitherIsTheSuperType(UnshapedType(a.elems[2]), UnshapedType(b.elems[2])) IN
    IF Unknown \in {key, value} THEN Unknown ELSE DictOf(key, value)

\* Faulty variant: None and a type are given that type.
UnifyDroppingNone(a, b) ==
    CASE TryEitherIsTheSuperType(a, b) # Unknown -> TryEitherIsTheSuperType(a, b)
      [] a.kind = "Tensor" /\ b.kind = "Tensor"  -> Merge(a, b)
      [] a.kind = "None"                         -> b
      [] b.kind = "None"                         -> a
      [] OTHER                                   -> Unknown

\* unifyTypes: the supertype of the two, the tensor type of what they share,
\* an Optional for a type and None, or else by what they contain.  (That both
\* are subtypes of Tensor, which comes next, leaves two tensor types.)
UnifyTypes(a, b) ==
    CASE TryEitherIsTheSuperType(a, b) # Unknown -> TryEitherIsTheSuperType(a, b)
      [] a.kind = "Tensor" /\ b.kind = "Tensor"  -> Merge(a, b)
      [] a.kind = "None"                         -> OptionalOf(b)
      [] b.kind = "None"                         -> OptionalOf(a)
      [] a.kind = "List" /\ b.kind = "List"      ->
            TryEitherIsTheSuperType(UnshapedType(a), UnshapedType(b))
      [] a.kind = "Tuple" /\ b.kind = "Tuple"    -> UnifyTuples(a, b)
      [] a.kind = "Dict" /\ b.kind = "Dict"      -> UnifyDicts(a, b)
      [] OTHER                                   -> Unknown

JitInit == elements = <<>> /\ retType = Unknown

\* unifyTypeList takes the next element, unless those before have no type.
UnifyNext(t) ==
    /\ Len(elements) < MaxElements
    /\ elements' = Append(elements, t)
    /\ retType' = IF elements = <<>> THEN t
                  ELSE IF retType = Unknown THEN Unknown ELSE UnifyTypes(retType, t)

JitNext == \E t \in SampleTypes : UnifyNext(t)

-----------------------------------------------------------------------------
\* What the types mean: the values that the code may find in an IValue of a
\* type.  A tuple carries its schema, a list or dictionary the type of its
\* elements, of which the shapes of tensors say nothing.
RECURSIVE Erased(_)
Erased(t) ==
    IF t.kind = "Tensor" THEN AnyTensor
    ELSE WithContained(t, [i \in DOMAIN t.elems |-> Erased(t.elems[i])])

Matches(known, actual) == known \in {Unknown, actual}

RECURSIVE Member(_, _)
Member(v, t) ==
    CASE t.kind = "Any"      -> TRUE
      [] t.kind = "Number"   -> v.kind \in {"Int", "Float"}
      [] t.kind = "Optional" -> v.kind = "None" \/ Member(v, t.elems[1])
      [] t.kind = "Tensor"   ->
            /\ v.kind = "Tensor"
            /\ Matches(t.info.scalar, v.info.scalar)
            /\ Matches(t.info.undefined, v.info.undefined)
            /\ \/ t.info.sizes = Unknown
               \/ /\ Len(t.info.sizes) = Len(v.info.sizes)
                  /\ \A i \in DOMAIN v.info.sizes : Matches(t.info.sizes[i], v.info.sizes[i])
      [] t.kind = "Tuple"    ->
            /\ v.kind = "Tuple" /\ Len(v.elems) = Len(t.elems)
            /\ \A i \in DOMAIN v.elems : Member(v.elems[i], t.elems[i])
            /\ t.info # Plain => FieldNames(v.info) = FieldNames(t.info)
      [] OTHER               ->
            v.kind = t.kind /\ [i \in DOMAIN v.elems |-> Erased(v.elems[i])]
                                 = [i \in DOMAIN t.elems |-> Erased(t.elems[i])]

\* A value of each kind is written like the type that says everything of it.
CONSTANT SampleValues

\* Subtyping is what calls rely on when they check an argument's type once:
\* a type is a subtype of itself, of whatever its supertypes are subtypes of,
\* and only of types that admit all of its values.
SubtypingIsSound ==
    \A i, j \in DOMAIN elements :
        LET a == elements[i]  b == elements[j] IN
        /\ Subtype(a, a)
        /\ Subtype(a, b) => \A v \in SampleValues : Member(v, a) => Member(v, b)
        /\ Subtype(a, b) => \A k \in DOMAIN elements :
                               Subtype(b, elements[k]) => Subtype(a, elements[k])

\* "Attempt to find the correct supertype of t1 and t2" (jit_type.h:1209): the
\* type given to a list admits the values of each of its elements, those
\* unified first included.
UnifiedFitsAll ==
    retType # Unknown =>
        \A i \in DOMAIN elements : \A v \in SampleValues :
            Member(v, elements[i]) => Member(v, retType)
=============================================================================
