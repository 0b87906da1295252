-------------------------- MODULE MC_StructClosure --------------------------
(***************************************************************************)
(* Schema documents for StructClosure.  Two registered structs:            *)
(*   A     non-generic,                                                    *)
(*   B<T>  generic in one variable,                                        *)
(* and a struct name X that is referenced but never registered.  Each      *)
(* struct gets up to two fields drawn from the field types below, so the   *)
(* runs cover self-reference (A.f: A, B<T>.f: B<T>), mutual reference      *)
(* (A -> B<A> -> A), lists, maps, unions, unknown names, the raw use of a  *)
(* generic struct (B with no argument) and argument substitution.          *)
(***************************************************************************)
EXTENDS StructClosure

TInt == Basic("int")
TStr == Basic("string")
TA == Named("A", <<>>)
TX == Named("X", <<>>)
TBint == Named("B", <<TInt>>)
TBA == Named("B", <<TA>>)
TBraw == Named("B", <<>>)
TV == TypeVariable("T")

\* Field types a non-generic struct may declare.
AFieldTypes == {TA, TBint, ListType(TA), TX,
                UnionType(<<<<"p", TA>>, <<"q", TBint>>>>), TBraw}

\* Field types B<T> may declare; none instantiates B at a larger type.
BFieldTypes == {TV, ListType(TV), Named("B", <<TV>>), MapType(TStr, TV), TBA}

FieldSeqs(S) ==
    {<<>>}
    \cup {<<[name |-> "f1", type |-> x]>> : x \in S}
    \cup {<<[name |-> "f1", type |-> x], [name |-> "f2", type |-> y]>> : x, y \in S}

Registries ==
    {("A" :> [name |-> "A", typeVars |-> <<>>, fields |-> fa])
     @@ ("B" :> [name |-> "B", typeVars |-> <<"T">>, fields |-> fb]) :
        fa \in FieldSeqs(AFieldTypes), fb \in FieldSeqs(BFieldTypes)}

\* The third is a generic method: its parameter is a bare type variable.
FirstApis == {[params |-> <<>>, returnType |-> TA],
              [params |-> <<TInt>>, returnType |-> TBint],
              [params |-> <<TV>>, returnType |-> TBA]}
SecondApis == {[params |-> <<TX>>, returnType |-> ListType(TBA)],
               [params |-> <<TStr>>, returnType |-> MapType(TStr, TA)]}

MCSchemas ==
    {[structs |-> r, apis |-> <<a1, a2>>] :
        r \in Registries, a1 \in FirstApis, a2 \in SecondApis}

(***************************************************************************)
(* The same field types with at most one field per struct, for the        *)
(* refinement check, whose fairness part is costly on every state.        *)
(***************************************************************************)
OneFieldSeqs(S) == {<<>>} \cup {<<[name |-> "f1", type |-> x]>> : x \in S}

RefinementSchemas ==
    {[structs |-> ("A" :> [name |-> "A", typeVars |-> <<>>, fields |-> fa])
                  @@ ("B" :> [name |-> "B", typeVars |-> <<"T">>, fields |-> fb]),
      apis |-> <<a1, a2>>] :
        fa \in OneFieldSeqs(AFieldTypes), fb \in OneFieldSeqs(BFieldTypes),
        a1 \in FirstApis, a2 \in SecondApis}

(***************************************************************************)
(* A schema whose first api is sound and whose second api returns the raw  *)
(* generic struct B (a Java raw type): variableBinding throws.             *)
(***************************************************************************)
RawGenericSchemas ==
    {[structs |-> ("A" :> [name |-> "A", typeVars |-> <<>>,
                           fields |-> <<[name |-> "f1", type |-> TBint]>>])
                  @@ ("B" :> [name |-> "B", typeVars |-> <<"T">>,
                              fields |-> <<[name |-> "f1", type |-> TV]>>]),
      apis |-> <<[params |-> <<>>, returnType |-> TA],
                 [params |-> <<>>, returnType |-> TBraw]>>]}

(***************************************************************************)
(* A non-generic struct A used with a type argument, A<int>, next to its   *)
(* ordinary use.                                                           *)
(***************************************************************************)
ExtraArgSchemas ==
    {[structs |-> ("A" :> [name |-> "A", typeVars |-> <<>>,
                           fields |-> <<[name |-> "f1", type |-> TStr]>>])
                  @@ ("B" :> [name |-> "B", typeVars |-> <<"T">>, fields |-> <<>>]),
      apis |-> <<[params |-> <<Named("A", <<TInt>>)>>, returnType |-> TA]>>]}

(***************************************************************************)
(* A generic struct that refers to itself at a larger instantiation, as   *)
(* Java allows: class B<T> { B<List<T>> next; }.  Each binding produces a  *)
(* new canonical string, B<int>, B<[int]>, B<[[int]]>, ...                 *)
(***************************************************************************)
GrowingSchemas ==
    {[structs |-> ("A" :> [name |-> "A", typeVars |-> <<>>, fields |-> <<>>])
                  @@ ("B" :> [name |-> "B", typeVars |-> <<"T">>,
                              fields |-> <<[name |-> "next",
                                            type |-> Named("B", <<ListType(TV)>>)]>>]),
      apis |-> <<[params |-> <<>>, returnType |-> TBint]>>]}

(***************************************************************************)
(* A method written with the shorthand of spec 6: its parameter is the     *)
(* bare string "int" and its return type the bare string "A", a           *)
(* registered struct.                                                      *)
(***************************************************************************)
BareSchemas ==
    {[structs |-> ("A" :> [name |-> "A", typeVars |-> <<>>,
                           fields |-> <<[name |-> "f1", type |-> TStr]>>])
                  @@ ("B" :> [name |-> "B", typeVars |-> <<"T">>, fields |-> <<>>]),
      apis |-> <<[params |-> <<Bare("int")>>, returnType |-> Bare("A")]>>]}

=============================================================================
