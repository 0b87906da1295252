# Model checking the api-gateway documentation engine

The repository's only source file, `src/api-gateway/src/main/resources/static/assets/main.js`
(710 lines), is the browser side of the API documentation viewer.
It loads a schema document, resolves a small generic type calculus over it,
computes the structs each API method reaches, and synthesizes example values.
This directory holds TLA+ modules that model that code, TLC configurations
that check them, and `PROJECT.json`, which maps every definition to the lines
it models.

## 1. Inventory

### Components, their state and their operations

| Component | Code | State | Operations |
|---|---|---|---|
| Type model | `GenericType` (1-242) | immutable; `_title`/`_string` memo caches | constructors, `isBasicType`, `resolveTypeVars`, `toString` (the canonical key), `title`, `toHtml`, `generateExampleValue` |
| Struct registry and binding | `TypeStruct`, `FieldInfo.asBoundField`, `BoundStruct` (291-410) | immutable structs, built once per load | `variableBinding` (throws on an arity mismatch), `asBoundStruct` (throws on a name mismatch) |
| Schema load and closure | `ApiDocument`, `MethodInfo` constructors, `structClosure` (412-570) | per method: the `referredStructs` accumulator (canonical string to BoundStruct) and `issues` | the registry is built, then one `MethodInfo` is constructed per api, and each runs `structClosure` over its parameter types and then its return type |
| Example synthesis | `generateExampleValue` of GenericType, FieldInfo, ParameterInfo, MethodInfo, BoundStruct; `RandomContext` (181-241, 266-289, 316-321, 397-405, 469-474, 499-505) | per request: `seq` (starts at 1), `structPath` | `nextSeq`, `pushStruct`/`popStruct`, type-directed value generation, union tagging |
| Example codec | `ExampleValues` (244-264) | none | `parse` (JSON, failure swallowed), `format` |
| Viewer UI | the Vue app (572-711) | `scopeValue`, `queryValue`, `expandedGroupNames`, `selectedApi`, `searchResult`, `loaded`, `apiSchemaError`, `groups`, `apis`, `apiSchema` | `query`/`scope` setters, `expandGroup`, `selectApi`, `updateSearchResult`, `updateApiSchema`, `updateFilterResult` |
| Method search | `MethodInfo` constructor's `searchableText`, `matchesKeyword` (428-479) | none | upper-casing, joining, `includes` |
| Presentation | `toHtml`, `targetHashId` | none | string formatting |

### How they interact

`updateApiSchema` (called by the page, outside `src/`) either records an upstream error
or constructs an `ApiDocument`.
The `ApiDocument` constructor builds the registry and one `MethodInfo` per api.
Each `MethodInfo` calls `structClosure`, which calls `TypeStruct.asBoundStruct`, which calls
`resolveTypeVars` and `toString`.
An exception thrown by binding propagates out of every constructor and out of `updateApiSchema`.
The UI handlers then filter and search the `MethodInfo`s.
Example synthesis is started by the template through `formattedExampleValue`.
It creates a fresh `RandomContext` and reads the method's `referredStructs`.

### What is hard

The code is single-threaded and synchronous, so there are no data races and
no timeouts.
The hard behaviour is in recursion over user-supplied, possibly cyclic type graphs:
- the closure's termination rests on one guard, the canonical-string membership check;
- the failure semantics: a thrown binding error aborts the whole load;
- the order of UI events relative to the schema load;
- boundary values in synthesis: map keys that collide, tags on primitives, and a struct lookup that indexes an array by a string.

`PROJECT.json` lists each hazard at the line where it bites.

### What makes each component correct

- Closure: each method's `referredStructs` holds exactly one BoundStruct per reachable struct instantiation, with its fields substituted.
  Its issues name exactly the unregistered structs reached.
  The computation terminates on every schema.
- Binding: the arity and name are checked, and substitution is positional.
- Load: it completes, or fails only for an unbindable reachable type.
  Spec §7 asks that such a failure stay confined to one method.
- Synthesis: a struct's example has its fields; a union example is tagged;
  `list<union>` and `map<K, union>` have one element per alternative;
  synthesis terminates on self-referential structs.
- UI: `searchResult` is the query's filter over the scope's apis, and the expanded groups match the search.

## 2. Plan

Modules in order of importance, each composing the previous ones:

1. `GenericType` holds pure operators for the type model.
   Done.
2. `TypeStruct` holds binding operators.
   Done.
3. `StructClosure` models the schema load: ApiDocument, MethodInfo and structClosure as a state machine.
   `MC_StructClosure` provides the schemas.
   Done.
4. `ApiViewer` (done) models the Vue handlers.
   Its load builds the `ApiDocument` from a schema: one `MethodInfo` per api, made by `MethodSearch`.
   Whether the constructor throws is decided by `RefThrows`, the reference closure that `StructClosure` shows the load computes.
   `MC_ApiViewer` provides the registry, the schemas and the query texts.
8. `MethodSearch` (done) models the `searchableText` the `MethodInfo` constructor builds, `matchesKeyword`, and the trim and upper-casing of the query, character by character.
5. `ExampleSynthesis` (done) models `generateExampleValue` with `RandomContext`.
   It extends `StructClosure`, so examples are synthesized from the closures that the load really built.
   Its checks cover the value shapes, struct lookup, union tagging, map-key collisions and the date conversion.
6. `LoadSpec` (done) is an abstract specification of the load.
   In one atomic step per method it yields either that method's reference closure or a failure.
   `StructClosure` is shown to refine it with `INSTANCE ... WITH`, with the abstract spec as a PROPERTY.
7. `ExampleValues` (done) models `ExampleValues.parse` and the JS values.
   `TypeStruct` applies it in the `FieldInfo` constructor and in `asBoundField`, and synthesis uses the parsed literal.

## 3. Modules

### GenericType

A type is a record with all of the JS object's fields: `typeName`, `typeArgs`, `typeVar` and `possibleTypes`.
Absent fields hold `""` or `<<>>`.
A union's `possibleTypes` is a sequence of `<<key, type>>` pairs in `Object.entries` order.
`TypeToString` (the code's `toString`) builds real TLA+ strings.
Two types therefore share a closure key exactly when the JS strings are equal.
That includes the code's ambiguities: union entries are not bracketed, and a type variable prints like a struct name.
`ResolveTypeVars` is `resolveTypeVars`.
`IsBasicType` is `isBasicType`.
`Of` is `GenericType.of` with the constructor: a raw object is rebuilt with its arguments and alternatives converted in turn, and a bare string (`Bare(n)`) becomes `NoType`, a type with no field set, because destructuring a string finds none of the fields.
The `MethodInfo`, `ParameterInfo` and `FieldInfo` constructors apply it.
`structClosure` takes no branch for `NoType`, and its `toString` and `title` are `"null"`.
`Title` is the `title` getter: it repeats `toString`'s branches, but a union shows only its keys in brackets, and a union of more than three alternatives (`Truncated`) shows the first three and `..`.
The getters memoize into `_string` and `_title`; neither string is ever empty, so the memo always hits and each operator is simply the value.

### ExampleValues

The JS values are records: strings, numbers (kept as the text `String(n)` gives, which is what a map key becomes), booleans, null, undefined, arrays and objects.
`Parse` is `ExampleValues.parse`: a non-string, or any value for a primitive type, passes through.
A non-empty string is JSON-parsed, and an empty or malformed one gives undefined.
`JSON.parse` is modelled by its results on a fixed corpus of texts (`JsonCorpus`): `0`, `7`, `"7"` and `{"id":7}`.
Any other text is malformed.
`Truthy` is JS truthiness, which decides `exampleValue || ...`.
`format` (`JSON.stringify`) is layout and is left out.

### TypeStruct

`BindingThrows`, `VariableBinding`, `AsBoundStructThrows`, `AsBoundField` and `AsBoundStruct` translate `variableBinding`, `asBoundStruct` and `asBoundField`.
`FieldInfo` is the constructor: it parses the raw literal against the declared type.
`AsBoundField` builds a new `FieldInfo` too, so it parses the already parsed literal again, against the resolved type.
Field descriptions, `deprecated` and `groupName` are omitted, because nothing in the closure reads them.

### StructClosure

`structClosure` does all of its work when it is entered: the visited check, the lookup, the insertion and the issue.
After that it only recurses.
The recursion is therefore a stack `todo` of pending calls, and each action pops one call.
There is one action per branch of the code:
- `ClosureOfList`
- `ClosureOfMap`
- `ClosureOfBasic`
- `ClosureOfSeen`
- `ClosureOfMissing`
- `ClosureOfStruct`
- `ClosureBindFails`
- `ClosureOfUnion`
- `ClosureOfTypeVar`

An action pushes the recursive calls in the order the code makes them, so the model visits types in exactly the code's depth-first order.
`MethodInfoDone` stores a method's closure and issues.
It then starts the next method with a fresh closure, or completes the document.
`ClosureBindFails` models the uncaught throw: `phase` becomes `"failed"`.
The variables are:
- `schema`
- `cur` (the api being constructed)
- `todo`
- `closure`
- `issues`
- `referred`
- `apiIssues`
- `phase`

The reference definitions (`Reach`, `RefClosure`, `RefIssues`, `RefThrows`, in `ClosureReference`) restate spec §4.3 as a fixpoint over *types*.
They start from `SpecRoots`, the method's types as spec §6 reads the schema, where a bare string names a type; the load starts from `Roots`, the types `GenericType.of` builds.
The two agree on every schema without bare strings, and `bare_type_string` shows where they part.
They have no canonical-string guard and no order.
The properties compare the code's DFS against them.

`MaxDepth` bounds the nesting of `structClosure` calls.
A call deeper than the bound is never taken, so a run that reaches it fails `LoadTerminates`.
In the passing run, that shows the bound is never reached.

### LoadSpec and the refinement

`LoadSpec` says what the load promises, with no traversal.
Each `ConstructMethod` step gives one method its reference closure and issue set.
Alternatively, `ConstructThrows` fails the load when the method reaches an unbindable struct.
`StructClosure` defines `Abs == INSTANCE LoadSpec WITH apiIssues <- ...`, which reads each issue list as a set.
It checks `LoadSpecRefined == Abs!Spec` as a property.
The traversal steps are stuttering steps of `LoadSpec`, and `MethodInfoDone` and `ClosureBindFails` are its two actions.

### MethodSearch

`MethodSearch` extends `ClosureReference`.
`MethodInfo(api, reg)` is the record the viewer reads:
- `group` is `methodName.substring(0, indexOf('.'))`, so a name without a dot has group `""`;
- `searchableText` joins, upper-cased, the method name, the description, the name of every struct in the reference closure, and the text of every issue (`could not find struct X`).

`QueryKey` is `query.trim().toUpperCase()`, and `MatchesKeyword` is `includes`.
Strings are TLA+ strings; the alphabet is ASCII and the only blank is the space.
The order of the closure's names is left open (a set turned into a sequence), because a query holds no newline and so cannot tell two orders apart.

### ApiViewer

The variables are the Vue `data` fields: `scopeValue`, `queryValue`, `expandedGroupNames`, `selectedApi`, `searchResult`, `loaded`, `apiSchemaError`, `groups`, `apis` and `apiSchema`.
There is also `delivered`, because the page calls `updateApiSchema` once (spec §5).
The actions are the handlers, each with the `updateFilterResult` and `updateSearchResult` calls it makes:
- `SetQuery`
- `SetScopeBeforeLoad` (the setter throws in `updateFilterResult` because `apiSchema` is still the class)
- `SetScope`
- `ExpandGroup`
- `SelectApi`
- `LoadSchemaError`
- `LoadSchemaThrows`
- `LoadSchema`

Filtering and searching are operators:
- `ApiDocument(as)` is `new ApiDocument`: one `MethodInfo` per api, in order, and `ApiDocumentThrows` is the case where one of them throws;
- `FilterApis` and `GroupsOf` translate `updateFilterResult`;
- `SearchResultFor` and `ExpandedFor` translate `updateSearchResult`, including its single-hit rule.

The template is outside `src/`, so it is not modelled.
We assume from it that only listed groups can be expanded, and only apis under expanded groups can be selected.
`expandGroup` clears the selection when it collapses the selected api's group, so `SelectionInExpandedGroup` states that a selection lives in an expanded group.
DOM scrolling and `location.hash` are omitted.

### ExampleSynthesis

Synthesis is one synchronous recursion that threads the mutable `RandomContext` through every call.
`Gen(t, ctx, api)` is that recursion, with the context passed in and handed back.
`GenList`, `GenMap`, `GenStruct` and `GenFields` are its loops, in the code's order of calls.
A TypeError sets `ctx.thrown`, and every caller then returns at once.
Values are JSON-visible JS values: strings, numbers (kept as the text `String(n)` gives, which is what a map key becomes), booleans, null, arrays and objects.
The conversions are modelled by what they do:
- `FloatOf` models `parseFloat(a + '.' + b)`, which drops trailing zeros.
- `KeyString` models `key.toString()`.
- `Tag` models `value['@classKey'] = key`.
  On an object it adds the tag, on an array JSON drops it, and on a primitive or null it throws (class bodies are strict code).
- `DateText` applies the code's `replace('/', '-')` to the zh-CN format, using `ReplaceFirstSubSeq`.
- `ReferredLookup` models `ctx.api.referredStructs[key]` on the array that `Object.values` made.
  Only an index string or `"length"` can hit.

A field or method literal is the value `Parse` gave.
It overrides synthesis only when it is truthy, as `exampleValue || ...` does.
The variable `shown` records the last `formattedExampleValue` request and its outcome, with the literal the schema declares for it.
`MethodExample`, `ParameterExample` and `FieldExample` are those requests.
They are enabled once the document is loaded, and each one takes the request's time from `Clock`.

## 4. Runs

| Run | Checks | Shows |
|---|---|---|
| `closure` (`StructClosure.cfg`, pass) | `TypeOK`, `ClosureMatchesReference`, `LoadOutcome`, `LoadTerminates` | See below. |
| `arity_aborts_load` (violation) | `LoadCompletes` | A raw `B` in the second api aborts the whole document (spec §7 says the failure should be scoped). |
| `growing_generic` (violation) | `LoadTerminates` | `class B<T> { B<List<T>> next; }` recurses through `B<int>`, `B<[int]>`, ... without end. |
| `extra_type_args` (violation) | `BoundArityMatches` | `A<int>` for a non-generic `A` binds silently (spec §4.2 says it should fail). |
| `bare_type_string` (violation) | `ClosureMatchesReference` | A method whose return type is the bare string `"A"` (spec §6 shorthand for the named type `A`) gets no referred struct and no issue: `GenericType.of` destructures the string into a type with no field set. |
| `synthesis` (`ExampleSynthesis.cfg`, pass) | `ExampleConforms`, `TitleAbbreviatesUnions` | Every example without a literal has its type's shape (spec 4.4) and raises no TypeError; the title of every type shown is its canonical string with each union reduced to its keys, shortened beyond three (spec 4.1). |
| `string_literal_reparsed` (violation) | `LiteralOverridesSynthesis` | `B.value: T` declares the JSON string `"7"`; bound as `B<A>`, `asBoundField` parses it again and the example shows the number 7. |
| `date_format` (violation) | `DateIsIso` | The date example is `2024-03/09 07:05:01`, not `YYYY-MM-DD HH:MM:SS`. |
| `struct_example_empty` (violation) | `StructExampleHasFields` | `A {name, items}` gets the example `{}`, because the lookup can never find a struct. |
| `viewer` (`ApiViewer.cfg`, pass) | `TypeOK`, `SearchShowsScopeAndQuery`, `ExpandedGroupsListed`, `ReferencedStructsFound` | See below. |
| `viewer_dotless_collapse` (violation) | `SelectionInExpandedGroup` | For `ping` (group `""`), collapsing `""` keeps `ping` selected: `"ping".startsWith("" + ".")` is false. |
| `load_refines` (`StructClosure_refines.cfg`, pass) | `LoadSpecRefined` | Over 252 schemas with at most one field per struct, the depth-first load implements `LoadSpec`, including its fairness. |

The `closure` run covers 7,998 schemas.
On all of them it shows three things:
- Every method's closure and issue set equal the reference.
- The load fails exactly when a reachable type cannot be bound.
- The load always ends.

Bounds of `closure`:
- Two registered structs: `A`, which is non-generic, and `B<T>`.
- One unregistered name, `X`.
- Up to two fields per struct, chosen from six field types for `A` and five for `B`.
- Two apis, with three and two choices.

Those field types give:
- self cycles (`A.f: A`, `B<T>.f: B<T>`);
- mutual cycles (`A -> B<A> -> A`);
- substitution through list, map and union;
- unknown names;
- raw generic use;
- a bare type variable as a method parameter.

Every branch of `structClosure` and both outcomes of the load are taken.
The closures reach 4 to 5 distinct structs, which is more than every pattern of the guard needs: a first visit, a revisit in the same method, and a revisit after a fresh closure.

The `viewer` run checks every order of the query, scope, expand and select events and the one schema delivery.
It shows two things:
- Once a document is loaded, the listed result is exactly the methods that the scope admits and the query matches, each under its own group.
  That includes a scope chosen before the load, whose setter threw.
- The expanded groups are distinct, and each is a listed group.
- `ReferencedStructsFound`: a query naming a struct that a method reaches, directly or through fields, lists that method.
  This includes a struct that is not registered: its name then appears only in the issue text, and the mutant `SearchableTextNoIssues` loses it.

Bounds of `viewer`:
- A registry `User { name }`, `UserOrder { user: User }`, `Box<T> { value: T }`.
- A schema of four methods, in groups `user` (two methods), `order`, and `""` (`ping`, a name without a dot, returning the unregistered `Audit`).
- A second schema that uses `Box` raw, so its constructor throws.
- Their security levels are split differently by each of the scopes `all`, `client`, `backend` and `integrated`.
- Queries `""`, `"  "` (blank after trimming), `" user"` (three methods of two groups, found by name and through `UserOrder`), `"List"` (a single hit) and `"audit"` (found only through the issue).
- The upstream error document as well as both schemas.

Bounds of `synthesis`: 47 one-method schemas over one registry.
- `A { name: string; items: list<p:A | q:B<int>> }`.
- `B<T> { value: T; next: map<string, p:A | q:B<T>> }`.
- 15 return types: every branch of `generateExampleValue`, including lists and maps of two- and three-way unions with string, int and char keys, and a union of four, the first whose title is shortened.
- Three parameter lists, including a bare type variable.
- One method with a literal example (`{"id":7}`), and one whose parameters declare `c` on a char (kept as is) and `{"id":7}` on a map.
- Field literals: `"alice"` on a string (kept as is), an empty text and the malformed `x` (both undefined, so synthesis falls back), and `7` on `B.value: T` (a number, which survives binding at `int`).

Each loaded document serves every method, parameter and referred-field request.
`MaxDepth` is 12 here, because the nesting through map, union and `B<int>` is deeper than in the closure run.
A bound that is too small would leave some loads unfinished, and the examples of those documents unchecked.
With this registry, `LoadTerminates` holds under `MaxDepth = 12` (checked when the bound was chosen); the run does not repeat that check, which the `closure` run already makes of the same code.
In the code as it stands, a struct reference always yields `{}`.
So `ExampleConforms` asks only for an object there, and `StructExampleHasFields` records the divergence.
`GenStruct` (the path guard) is modelled, but the code can never reach it.

## 5. Fairness

The constructors run to completion synchronously on one thread, so `Spec` has `WF_vars(Next)`.
The load stops when the constructor returns.
The closure runs therefore set `CHECK_DEADLOCK FALSE`: a finished load is a final state.
`LoadSpec` has `WF_lvars(Next)` for the same reason, and `load_refines` checks that the code's fairness implies it.
Liveness over the 137k states of `closure` is too slow to check, so this runs on a smaller schema set.
The viewer's events come from a user, who owes the page nothing, so `ApiViewer` assumes no fairness and states no liveness.
Its deadlock check stays on, because the user can always type a query.
`SynthSpec` keeps `WF_vars(Next)` for the load only: example requests come from the reader.
Its runs set `CHECK_DEADLOCK FALSE`, because a failed load serves nothing.

## 6. Not modelled

- `toHtml` and `targetHashId` are HTML and anchor strings.
  No property depends on them.
- The schema transport and the HTML template are not under `src/`.
- `map<boolean, union>` with three or more alternatives draws the keys false, true, false, so the third entry overwrites the first (spec §4.4 asks for one entry per alternative).
  `ExampleConforms` would report it, but the inputs of `synthesis` use string, int and char keys only, and it has no run of its own.
- `JSON.parse` is modelled only on a fixed corpus of texts, and `JSON.stringify` (`ExampleValues.format`) not at all.
  Its text depends on the insertion order of object keys, which the value model (an object is a function from keys to values) does not keep. What `JSON.stringify` drops that a property could see, a tag set on an array, is already dropped where `Tag` sets it.
  So the Example Value Codec stays partly modelled.
- A literal that parses to `0`, `false` or `""` is falsy, and `exampleValue ||` replaces it by a synthesized value, against spec §4.4.
  `LiteralOverridesSynthesis` is violated with `RegistryWith("0")` (checked once, with `B<int>` as the return type), but no run keeps that input: `string_literal_reparsed` is the run of that property, and it shows the re-parse at line 313.
  `synthesis` no longer checks `LiteralOverridesSynthesis` at all: over truthy literals that survive binding, it would only restate that `asBoundField` copies `exampleValue`.
