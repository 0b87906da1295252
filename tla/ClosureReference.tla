-------------------------- MODULE ClosureReference --------------------------
(***************************************************************************)
(* What a MethodInfo's structClosure is about, for a registry reg (struct  *)
(* name -> TypeStruct) and an api ([params, returnType]): its root types,  *)
(* which types are struct references, and the reference closure of spec   *)
(* 4.3 that both the load (StructClosure) and its abstract specification   *)
(* (LoadSpec) are measured against.                                        *)
(***************************************************************************)
EXTENDS TypeStruct, FiniteSets

\* The types structClosure is called on for an api: the MethodInfo
\* constructor's GenericType.of of each parameter type, then of the return type.
Roots(api) == [i \in DOMAIN api.params |-> Of(api.params[i])] \o <<Of(api.returnType)>>

(***************************************************************************)
(* The same types as spec 6 reads the schema: a bare string is shorthand  *)
(* for a non-parameterized named type.  Only a bare root is read here; a  *)
(* raw object is taken as the type it describes, so the reference covers  *)
(* schemas whose bare strings stand for whole parameter or return types.  *)
(***************************************************************************)
SpecType(raw) == IF IsBare(raw) THEN Basic(raw.bare) ELSE raw

SpecRoots(api) == [i \in DOMAIN api.params |-> SpecType(api.params[i])] \o <<SpecType(api.returnType)>>

\* A struct reference: a named type that is neither list, map nor primitive.
IsStructRef(t) ==
    /\ t.typeName \notin {"", "list", "map"}
    /\ ~IsBasicType(t)

(***************************************************************************)
(* Reference definition of what a MethodInfo's closure must be (spec 4.3): *)
(* the struct references reachable from the api's roots through list      *)
(* elements, map values, type arguments, bound field types and union      *)
(* alternatives, computed as a set of TYPES by a fixpoint, with no        *)
(* canonical-string guard and no order, from the roots as spec 6 reads    *)
(* them.                                                                   *)
(***************************************************************************)
Binds(reg, x) ==
    /\ IsStructRef(x)
    /\ x.typeName \in DOMAIN reg
    /\ ~AsBoundStructThrows(reg[x.typeName], x)

RefChildren(reg, x) ==
    CASE x.typeName = "list" -> {x.typeArgs[1]}
      [] x.typeName = "map" -> {x.typeArgs[2]}
      [] Binds(reg, x) ->
            LET b == AsBoundStruct(reg[x.typeName], x)
            IN  ToSet(x.typeArgs) \cup {b.fields[i].type : i \in DOMAIN b.fields}
      [] x.possibleTypes # <<>> -> ToSet(Alternatives(x))
      [] OTHER -> {}

RECURSIVE Reach(_, _, _)
Reach(reg, frontier, seen) ==
    IF frontier \subseteq seen THEN seen
    ELSE LET new == frontier \ seen
         IN  Reach(reg, UNION {RefChildren(reg, x) : x \in new}, seen \cup new)

Reachable(reg, api) == Reach(reg, ToSet(SpecRoots(api)), {})

\* The reachable struct references that are registered, of a reachable set xs.
StructTypesIn(reg, xs) == {x \in xs : IsStructRef(x) /\ x.typeName \in DOMAIN reg}

\* One bound struct per reachable registered type, keyed by canonical string.
ClosureIn(reg, xs) ==
    LET ss == StructTypesIn(reg, xs)
    IN  [k \in {TypeToString(x) : x \in ss} |->
           LET x == CHOOSE y \in ss : TypeToString(y) = k
           IN  AsBoundStruct(reg[x.typeName], x)]

\* The unregistered struct names of a reachable set.
IssuesIn(reg, xs) == {x.typeName : x \in {y \in xs : IsStructRef(y) /\ y.typeName \notin DOMAIN reg}}

\* Some reachable registered struct reference cannot be bound.
ThrowsIn(reg, xs) == \E x \in StructTypesIn(reg, xs) : AsBoundStructThrows(reg[x.typeName], x)

\* The referredStructs the api should get.
RefClosure(reg, api) == ClosureIn(reg, Reachable(reg, api))

\* The struct names the api should report as not found.
RefIssues(reg, api) == IssuesIn(reg, Reachable(reg, api))

\* Some reachable struct reference of the api cannot be bound.
RefThrows(reg, api) == ThrowsIn(reg, Reachable(reg, api))

=============================================================================
