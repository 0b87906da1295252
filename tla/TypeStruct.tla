----------------------------- MODULE TypeStruct -----------------------------
(***************************************************************************)
(* Struct definitions and their binding (classes TypeStruct, FieldInfo,    *)
(* BoundStruct of main.js).  A struct is a record                          *)
(*   [name, typeVars, fields]                                              *)
(* with typeVars a sequence of variable names (the declared type           *)
(* parameters) and fields a sequence of [name, type, exampleValue]        *)
(* records (exampleValue may be absent: undefined).  Binding a            *)
(* struct at an actual type yields a bound struct [name, type, fields]     *)
(* whose field types have the struct's variables substituted.              *)
(***************************************************************************)
EXTENDS ExampleValues

\* The empty JS Map.
EmptyBinding == [v \in {} |-> Basic("null")]

(***************************************************************************)
(* variableBinding(actualType) throws when the struct declares type        *)
(* variables and the actual type does not carry exactly as many           *)
(* arguments.  A struct without type variables never throws, whatever     *)
(* arguments the actual type carries.                                      *)
(***************************************************************************)
BindingThrows(s, actual) ==
    /\ s.typeVars # <<>>
    /\ Len(actual.typeArgs) # Len(s.typeVars)

\* variableBinding(actualType): declared variable i is bound to argument i.
VariableBinding(s, actual) ==
    IF s.typeVars = <<>> THEN EmptyBinding
    ELSE [v \in ToSet(s.typeVars) |->
            actual.typeArgs[CHOOSE i \in DOMAIN s.typeVars : s.typeVars[i] = v]]

\* asBoundStruct(actualType) throws on a name mismatch or a binding error.
AsBoundStructThrows(s, actual) ==
    \/ s.name # actual.typeName
    \/ BindingThrows(s, actual)

\* new FieldInfo({name, type, exampleValue}): the type is GenericType.of the
\* raw type, and the raw example is parsed against it.
FieldInfo(name, type, raw) ==
    [name |-> name, type |-> Of(type), exampleValue |-> Parse(Of(type), raw)]

(***************************************************************************)
(* FieldInfo.asBoundField(binding): a new FieldInfo with the type resolved; *)
(* its constructor parses the already parsed exampleValue again, now      *)
(* against the resolved type.                                              *)
(***************************************************************************)
AsBoundField(f, binding) ==
    LET t == ResolveTypeVars(f.type, binding)
    IN  IF "exampleValue" \in DOMAIN f
        THEN [f EXCEPT !.type = t, !.exampleValue = Parse(t, f.exampleValue)]
        ELSE [f EXCEPT !.type = t]

\* asBoundStruct(actualType): a new BoundStruct(name, actualType, newFields).
AsBoundStruct(s, actual) ==
    LET binding == VariableBinding(s, actual)
    IN  [name   |-> s.name,
         type   |-> actual,
         fields |-> [i \in DOMAIN s.fields |-> AsBoundField(s.fields[i], binding)]]

=============================================================================
