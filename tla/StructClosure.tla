---------------------------- MODULE StructClosure ----------------------------
(***************************************************************************)
(* Loading an API schema: the ApiDocument constructor builds the struct    *)
(* registry, then constructs one MethodInfo per api; each MethodInfo runs  *)
(* structClosure over its parameter types and then its return type, into  *)
(* a fresh closure (canonical string -> BoundStruct) and issue list.       *)
(*                                                                         *)
(* structClosure does all of its own work (the visited check, the lookup,  *)
(* the insertion, the issue) on entry and then only recurses, so the       *)
(* recursion is modelled as a stack todo of pending calls: an action pops  *)
(* one call, does its entry work, and pushes its recursive calls in the    *)
(* order the code makes them.  This is exactly the code's depth-first      *)
(* order.  A thrown Error (asBoundStruct) leaves every constructor and the *)
(* whole load fails.                                                       *)
(***************************************************************************)
EXTENDS ClosureReference

CONSTANTS
    Schemas,    \* the schema documents a run loads: [structs, apis] records
    MaxDepth    \* bound on the nesting of structClosure calls

ASSUME MaxDepth \in Nat \ {0}

VARIABLES
    schema,     \* the document being loaded: registry and apis
    cur,        \* index of the api whose MethodInfo is being constructed
    todo,       \* pending structClosure calls: [type, depth] records
    closure,    \* the current MethodInfo's referredStructs accumulator
    issues,     \* the current MethodInfo's issues
    referred,   \* closures of the MethodInfos constructed so far
    apiIssues,  \* issue lists of the MethodInfos constructed so far
    phase       \* "building", "loaded" or "failed"

vars == <<schema, cur, todo, closure, issues, referred, apiIssues, phase>>

structs == schema.structs
apis == schema.apis

\* Calls for the types ts at nesting depth d, made before the rest of todo.
Calls(ts, d) == [i \in DOMAIN ts |-> [type |-> ts[i], depth |-> d]]

\* An empty referredStructs object.
EmptyClosure == [k \in {} |-> Basic("null")]

-----------------------------------------------------------------------------
(***************************************************************************)
(* One action per branch of structClosure, on the call at the top of todo. *)
(***************************************************************************)
\* A call is taken while the load is building and the nesting bound holds.
Calling ==
    /\ phase = "building"
    /\ todo # <<>>
    /\ Head(todo).depth <= MaxDepth

\* The type and the nesting depth of the call at the top of todo.
top == Head(todo).type
topDepth == Head(todo).depth

\* list<T>: recurse into the element type.
ClosureOfList ==
    /\ Calling
    /\ top.typeName = "list"
    /\ todo' = Calls(<<top.typeArgs[1]>>, topDepth + 1) \o Tail(todo)
    /\ UNCHANGED <<schema, cur, closure, issues, referred, apiIssues, phase>>

\* Mutant: recursing into the key type of a map instead of the value type.
ClosureOfMapKey ==
    /\ Calling
    /\ top.typeName = "map"
    /\ todo' = Calls(<<top.typeArgs[1]>>, topDepth + 1) \o Tail(todo)
    /\ UNCHANGED <<schema, cur, closure, issues, referred, apiIssues, phase>>

\* map<K, V>: recurse into the value type only.
ClosureOfMap ==
    /\ Calling
    /\ top.typeName = "map"
    /\ todo' = Calls(<<top.typeArgs[2]>>, topDepth + 1) \o Tail(todo)
    /\ UNCHANGED <<schema, cur, closure, issues, referred, apiIssues, phase>>

\* A primitive: nothing to do.
ClosureOfBasic ==
    /\ Calling
    /\ IsBasicType(top)
    /\ todo' = Tail(todo)
    /\ UNCHANGED <<schema, cur, closure, issues, referred, apiIssues, phase>>

\* A struct reference whose canonical string is already in the closure.
ClosureOfSeen ==
    /\ Calling
    /\ IsStructRef(top)
    /\ TypeToString(top) \in DOMAIN closure
    /\ todo' = Tail(todo)
    /\ UNCHANGED <<schema, cur, closure, issues, referred, apiIssues, phase>>

\* A struct reference not in the registry: recorded as an issue.
ClosureOfMissing ==
    /\ Calling
    /\ IsStructRef(top)
    /\ TypeToString(top) \notin DOMAIN closure
    /\ top.typeName \notin DOMAIN structs
    /\ issues' = Append(issues, top.typeName)
    /\ todo' = Tail(todo)
    /\ UNCHANGED <<schema, cur, closure, referred, apiIssues, phase>>

\* Mutant: the closure keyed by struct name instead of canonical string.
ClosureOfStructByName ==
    /\ Calling
    /\ IsStructRef(top)
    /\ TypeToString(top) \notin DOMAIN closure
    /\ top.typeName \in DOMAIN structs
    /\ ~AsBoundStructThrows(structs[top.typeName], top)
    /\ LET bound == AsBoundStruct(structs[top.typeName], top)
           fieldTypes == [i \in DOMAIN bound.fields |-> bound.fields[i].type]
       IN  /\ closure' = [k \in DOMAIN closure \cup {top.typeName} |->
                             IF k = top.typeName THEN bound ELSE closure[k]]
           /\ todo' = Calls(top.typeArgs \o fieldTypes, topDepth + 1) \o Tail(todo)
    /\ UNCHANGED <<schema, cur, issues, referred, apiIssues, phase>>

(***************************************************************************)
(* A registered struct: bind it, insert it under its canonical string      *)
(* before recursing, then recurse into the type arguments and then into   *)
(* every bound field.                                                      *)
(***************************************************************************)
ClosureOfStruct ==
    /\ Calling
    /\ IsStructRef(top)
    /\ TypeToString(top) \notin DOMAIN closure
    /\ top.typeName \in DOMAIN structs
    /\ ~AsBoundStructThrows(structs[top.typeName], top)
    /\ LET bound == AsBoundStruct(structs[top.typeName], top)
           fieldTypes == [i \in DOMAIN bound.fields |-> bound.fields[i].type]
       IN  /\ closure' = closure @@ (TypeToString(top) :> bound)
           /\ todo' = Calls(top.typeArgs \o fieldTypes, topDepth + 1) \o Tail(todo)
    /\ UNCHANGED <<schema, cur, issues, referred, apiIssues, phase>>

\* Mutant: a binding error caught and reported as an issue.
ClosureBindFailsCaught ==
    /\ Calling
    /\ IsStructRef(top)
    /\ TypeToString(top) \notin DOMAIN closure
    /\ top.typeName \in DOMAIN structs
    /\ AsBoundStructThrows(structs[top.typeName], top)
    /\ issues' = Append(issues, top.typeName)
    /\ todo' = Tail(todo)
    /\ UNCHANGED <<schema, cur, closure, referred, apiIssues, phase>>

\* asBoundStruct throws: the error leaves the whole ApiDocument constructor.
ClosureBindFails ==
    /\ Calling
    /\ IsStructRef(top)
    /\ TypeToString(top) \notin DOMAIN closure
    /\ top.typeName \in DOMAIN structs
    /\ AsBoundStructThrows(structs[top.typeName], top)
    /\ phase' = "failed"
    /\ UNCHANGED <<schema, cur, todo, closure, issues, referred, apiIssues>>

\* A union: recurse into every alternative, no entry for the union itself.
ClosureOfUnion ==
    /\ Calling
    /\ top.typeName = ""
    /\ top.possibleTypes # <<>>
    /\ todo' = Calls(Alternatives(top), topDepth + 1) \o Tail(todo)
    /\ UNCHANGED <<schema, cur, closure, issues, referred, apiIssues, phase>>

\* A type variable, or a type with no field set (GenericType.of of a bare
\* string), matches no branch of structClosure.
ClosureOfTypeVar ==
    /\ Calling
    /\ top.typeName = ""
    /\ top.possibleTypes = <<>>
    /\ todo' = Tail(todo)
    /\ UNCHANGED <<schema, cur, closure, issues, referred, apiIssues, phase>>

\* Mutant: the MethodInfo's issues are not stored.
MethodInfoDoneNoIssues ==
    /\ phase = "building"
    /\ todo = <<>>
    /\ referred' = Append(referred, closure)
    /\ UNCHANGED apiIssues
    /\ IF cur < Len(apis)
         THEN /\ cur' = cur + 1
              /\ todo' = Calls(Roots(apis[cur + 1]), 1)
              /\ closure' = EmptyClosure
              /\ issues' = <<>>
              /\ UNCHANGED phase
         ELSE /\ phase' = "loaded"
              /\ UNCHANGED <<cur, todo, closure, issues>>
    /\ UNCHANGED schema

\* Mutant: the next MethodInfo starts from the previous one's closure.
MethodInfoDoneNoReset ==
    /\ phase = "building"
    /\ todo = <<>>
    /\ referred' = Append(referred, closure)
    /\ apiIssues' = Append(apiIssues, issues)
    /\ IF cur < Len(apis)
         THEN /\ cur' = cur + 1
              /\ todo' = Calls(Roots(apis[cur + 1]), 1)
              /\ issues' = <<>>
              /\ UNCHANGED <<closure, phase>>
         ELSE /\ phase' = "loaded"
              /\ UNCHANGED <<cur, todo, closure, issues>>
    /\ UNCHANGED schema

(***************************************************************************)
(* The end of a MethodInfo constructor: referredStructs and issues are     *)
(* stored; the next api's MethodInfo starts with an empty closure, or, for *)
(* the last api, the ApiDocument is complete.                              *)
(***************************************************************************)
MethodInfoDone ==
    /\ phase = "building"
    /\ todo = <<>>
    /\ referred' = Append(referred, closure)
    /\ apiIssues' = Append(apiIssues, issues)
    /\ IF cur < Len(apis)
         THEN /\ cur' = cur + 1
              /\ todo' = Calls(Roots(apis[cur + 1]), 1)
              /\ closure' = EmptyClosure
              /\ issues' = <<>>
              /\ UNCHANGED phase
         ELSE /\ phase' = "loaded"
              /\ UNCHANGED <<cur, todo, closure, issues>>
    /\ UNCHANGED schema

Init ==
    /\ schema \in Schemas
    /\ cur = 1
    /\ todo = Calls(Roots(schema.apis[1]), 1)
    /\ closure = EmptyClosure
    /\ issues = <<>>
    /\ referred = <<>>
    /\ apiIssues = <<>>
    /\ phase = "building"

Next ==
    \/ ClosureOfList
    \/ ClosureOfMap
    \/ ClosureOfBasic
    \/ ClosureOfSeen
    \/ ClosureOfMissing
    \/ ClosureOfStruct
    \/ ClosureBindFails
    \/ ClosureOfUnion
    \/ ClosureOfTypeVar
    \/ MethodInfoDone

(***************************************************************************)
(* The constructors run synchronously to completion on one thread, so a    *)
(* step that is enabled is eventually taken.                               *)
(***************************************************************************)
Spec == Init /\ [][Next]_vars /\ WF_vars(Next)

-----------------------------------------------------------------------------
TypeOK ==
    /\ schema \in Schemas
    /\ cur \in 1..Len(apis)
    /\ \A i \in DOMAIN todo : todo[i].depth \in 1..MaxDepth + 1
    /\ \A k \in DOMAIN closure : closure[k].type.typeName \in DOMAIN structs
    /\ Len(referred) = Len(apiIssues)
    /\ Len(referred) <= cur
    /\ phase \in {"building", "loaded", "failed"}

(***************************************************************************)
(* Every MethodInfo constructed holds exactly the bound structs reachable  *)
(* from its parameter and return types, keyed by canonical string, and    *)
(* reports exactly the unregistered struct names among them: the          *)
(* depth-first structClosure with its visited-key guard and its insertion *)
(* before recursion computes the reference fixpoint of spec 4.3.           *)
(***************************************************************************)
ClosureMatchesReference ==
    \A i \in DOMAIN referred :
        LET xs == Reachable(structs, apis[i])
        IN  /\ referred[i] = ClosureIn(structs, xs)
            /\ ToSet(apiIssues[i]) = IssuesIn(structs, xs)

(***************************************************************************)
(* The load fails exactly when the api being constructed reaches a struct  *)
(* reference that asBoundStruct rejects, and completes only when no api    *)
(* reaches one: every arity error is met, and nothing else aborts.         *)
(***************************************************************************)
LoadOutcome ==
    /\ phase = "loaded" => \A i \in DOMAIN apis : ~RefThrows(structs, apis[i])
    /\ phase = "failed" => RefThrows(structs, apis[cur])
    /\ phase = "building" => \A i \in DOMAIN referred : ~RefThrows(structs, apis[i])

(***************************************************************************)
(* Every bound struct was instantiated with as many type arguments as its  *)
(* struct declares type variables: spec 4.2 has variableBinding fail with *)
(* a BindingArityError otherwise.                                          *)
(***************************************************************************)
BoundArityMatches ==
    \A k \in DOMAIN closure :
        Len(closure[k].type.typeArgs) = Len(structs[closure[k].name].typeVars)

(***************************************************************************)
(* The load terminates: the visited-key guard stops the recursion on       *)
(* self-referential and mutually recursive structs (spec 5).               *)
(***************************************************************************)
LoadTerminates == <>(phase # "building")

(***************************************************************************)
(* The load completes: spec 7 asks that a binding error abort only the     *)
(* signature it occurs in, never the whole document.                       *)
(***************************************************************************)
LoadCompletes == <>(phase = "loaded")

-----------------------------------------------------------------------------
(***************************************************************************)
(* Refinement: the load implements LoadSpec.  The traversal steps stutter; *)
(* MethodInfoDone is ConstructMethod and ClosureBindFails is               *)
(* ConstructThrows; an issue list is seen as the set of its names.         *)
(***************************************************************************)
Abs == INSTANCE LoadSpec
           WITH apiIssues <- [i \in DOMAIN apiIssues |-> ToSet(apiIssues[i])]

(***************************************************************************)
(* The depth-first structClosure with its visited-key guard, its fresh    *)
(* closure per MethodInfo and its uncaught binding errors behaves as the  *)
(* abstract load: each MethodInfo gets the reference closure and issues,  *)
(* the load fails exactly at the first api reaching an unbindable struct, *)
(* and it always ends.                                                     *)
(***************************************************************************)
LoadSpecRefined == Abs!Spec

=============================================================================
