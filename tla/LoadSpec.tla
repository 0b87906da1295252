------------------------------ MODULE LoadSpec ------------------------------
(***************************************************************************)
(* What the schema load promises (spec 4.3, 5, 7), with no traversal: the  *)
(* ApiDocument constructor constructs the MethodInfos in document order;  *)
(* each one, in a single step, either gets exactly the reference closure  *)
(* and issue set of its parameter and return types, or finds an unbindable *)
(* struct reference and the whole load fails.  After the last MethodInfo *)
(* the document is loaded.                                                 *)
(***************************************************************************)
EXTENDS ClosureReference

CONSTANT Schemas     \* the schema documents a load may be given

VARIABLES
    schema,     \* the document being loaded
    phase,      \* "building", "loaded" or "failed"
    referred,   \* referredStructs of the MethodInfos constructed so far
    apiIssues   \* their issues, as sets of struct names

lvars == <<schema, phase, referred, apiIssues>>

\* The api whose MethodInfo is constructed next.
next == schema.apis[Len(referred) + 1]

Init ==
    /\ schema \in Schemas
    /\ phase = "building"
    /\ referred = <<>>
    /\ apiIssues = <<>>

\* A MethodInfo is constructed with its closure and issues.
ConstructMethod ==
    /\ phase = "building"
    /\ LET xs == Reachable(schema.structs, next)
       IN  /\ ~ThrowsIn(schema.structs, xs)
           /\ referred' = Append(referred, ClosureIn(schema.structs, xs))
           /\ apiIssues' = Append(apiIssues, IssuesIn(schema.structs, xs))
    /\ phase' = IF Len(referred) + 1 = Len(schema.apis) THEN "loaded" ELSE "building"
    /\ UNCHANGED schema

\* A MethodInfo reaches a struct that cannot be bound: the load fails.
ConstructThrows ==
    /\ phase = "building"
    /\ RefThrows(schema.structs, next)
    /\ phase' = "failed"
    /\ UNCHANGED <<schema, referred, apiIssues>>

Next == ConstructMethod \/ ConstructThrows

\* The load is one synchronous constructor call: it runs to its end.
Spec == Init /\ [][Next]_lvars /\ WF_lvars(Next)

=============================================================================
