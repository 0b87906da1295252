------------------------- MODULE MC_ExampleSynthesis -------------------------
(***************************************************************************)
(* Schema documents for ExampleSynthesis.  One registry:                   *)
(*   A     { name: string; items: list<p:A | q:B<int>> }                   *)
(*   B<T>  { value: T; next: map<string, p:A | q:B<T>> }                   *)
(* referred to directly, through lists and maps of unions of them, next   *)
(* to every primitive and a bare type variable.  Union alternatives are    *)
(* structs, as the schema's named subtypes are.                            *)
(***************************************************************************)
EXTENDS ExampleSynthesis

TInt == Basic("int")
TStr == Basic("string")
TChar == Basic("char")
TA == Named("A", <<>>)
TX == Named("X", <<>>)
TBint == Named("B", <<TInt>>)
TV == TypeVariable("T")

AorB(b) == UnionType(<<<<"p", TA>>, <<"q", b>>>>)
\* A union of three struct shapes, one of them unregistered.
ABX == UnionType(<<<<"p", TA>>, <<"q", TBint>>, <<"r", TX>>>>)
\* A union of four, whose title is shortened.
ABXB == UnionType(<<<<"p", TA>>, <<"q", TBint>>, <<"r", TX>>, <<"s", Named("B", <<TStr>>)>>>>)

(***************************************************************************)
(* The registry, with the literal example text each field declares: a     *)
(* string kept as is, an empty text and a malformed one (both undefined), *)
(* and valueText for B.value, a T parsed as JSON.                          *)
(***************************************************************************)
RegistryWith(valueText) ==
    ("A" :> [name |-> "A", typeVars |-> <<>>,
             fields |-> <<FieldInfo("name", TStr, Str("alice")),
                          FieldInfo("items", ListType(AorB(TBint)), Str(""))>>])
    @@ ("B" :> [name |-> "B", typeVars |-> <<"T">>,
                fields |-> <<FieldInfo("value", TV, Str(valueText)),
                             FieldInfo("next", MapType(TStr, AorB(Named("B", <<TV>>))),
                                       Str("x"))>>])

Registry == RegistryWith("7")

\* Return types: every branch of generateExampleValue, and unions of two, three
\* and four alternatives for the title.
ReturnTypes ==
    {TA, TBint, TX, AorB(TBint), ListType(TInt), ListType(ABX),
     MapType(TStr, Basic("double")), MapType(TInt, ABX), MapType(TChar, AorB(TBint)),
     Basic("boolean"), Basic("byte"), Basic("long"), Basic("date"), ListType(TV), ABXB}

ParamLists == {<<>>, <<TV>>, <<TChar, MapType(TStr, TA)>>}

\* A method whose author supplied a literal example.
LiteralApi == [params |-> <<>>, returnType |-> TA,
               exampleValue |-> Parse(TA, Str("{\"id\":7}"))]

\* A method whose parameters declare literal examples: a char kept as is
\* and a map parsed from JSON.
ParamLiteralApi == [params |-> <<TChar, MapType(TStr, TA)>>, returnType |-> TInt,
                    paramExamples |-> <<Str("c"), Str("{\"id\":7}")>>]

MCSchemas ==
    {[structs |-> Registry, apis |-> <<[params |-> ps, returnType |-> r]>>] :
        r \in ReturnTypes, ps \in ParamLists}
    \cup {[structs |-> Registry, apis |-> <<LiteralApi>>],
         [structs |-> Registry, apis |-> <<ParamLiteralApi>>]}

MCClock == {[y |-> "2024", mo |-> "03", d |-> "09", h |-> "07", mi |-> "05", s |-> "01"]}

\* A method returning a date.
DateSchemas ==
    {[structs |-> Registry, apis |-> <<[params |-> <<>>, returnType |-> Basic("date")]>>]}

\* A method returning the registered struct A.
StructSchemas ==
    {[structs |-> Registry, apis |-> <<[params |-> <<>>, returnType |-> TA]>>]}

\* B<A> whose value field declares the JSON string "7".
StringLiteralSchemas ==
    {[structs |-> RegistryWith("\"7\""),
      apis |-> <<[params |-> <<>>, returnType |-> Named("B", <<TA>>)]>>]}

=============================================================================
