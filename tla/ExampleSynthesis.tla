--------------------------- MODULE ExampleSynthesis ---------------------------
(***************************************************************************)
(* Example synthesis: generateExampleValue of GenericType, BoundStruct,    *)
(* FieldInfo, ParameterInfo and MethodInfo, driven by a RandomContext,     *)
(* over the MethodInfos that the schema load (StructClosure) constructed.  *)
(*                                                                         *)
(* The code is one synchronous recursion that threads the mutable context  *)
(* (seq, structPath) through every call; Gen(t, ctx, api) is that          *)
(* recursion with the context passed in and handed back, and returns      *)
(* [v |-> value, ctx |-> context after the call].  A TypeError thrown on   *)
(* the way sets ctx.thrown and every caller returns at once.              *)
(*                                                                         *)
(* Values are those of ExampleValues.  A property set on an array is not  *)
(* JSON-visible.                                                           *)
(***************************************************************************)
EXTENDS StructClosure

CONSTANT Clock   \* the times new Date() may return: [y, mo, d, h, mi, s] of digit strings

VARIABLE shown   \* the last formattedExampleValue request and its outcome

synthVars == <<vars, shown>>

\* new RandomContext(api): seq starts at 1, the struct path is empty; now
\* is what new Date() returns while this request runs.
NewContext(now) == [seq |-> 1, path |-> <<>>, thrown |-> FALSE, now |-> now]

\* ctx.nextSeq() returns seq and increments it.
Advance(ctx) == [ctx EXCEPT !.seq = @ + 1]

Thrown(ctx) == [ctx EXCEPT !.thrown = TRUE]

Letters == <<"a", "b", "c", "d", "e", "f", "g", "h", "i", "j", "k", "l", "m",
             "n", "o", "p", "q", "r", "s", "t", "u", "v", "w", "x", "y", "z">>

\* GenericType.DATE_FORMAT.format(now): Intl zh-CN, 2-digit, 24-hour.
FormatZhCN(now) == now.y \o "/" \o now.mo \o "/" \o now.d \o " "
                   \o now.h \o ":" \o now.mi \o ":" \o now.s

\* String.prototype.replace with a string pattern replaces the first match.
DateText(now) == ReplaceFirstSubSeq("-", "/", FormatZhCN(now))

\* Trailing zeros of the digits after the point vanish in parseFloat.
RECURSIVE DropTrailingZeros(_)
DropTrailingZeros(n) == IF n % 10 = 0 THEN DropTrailingZeros(n \div 10) ELSE n

\* Number.parseFloat(a + '.' + b), as the text String() gives back.
FloatOf(a, b) == [kind |-> "num", text |-> ToString(a) \o "." \o ToString(DropTrailingZeros(b))]

(***************************************************************************)
(* value['@classKey'] = key: on an object the tag is added; on an array   *)
(* it is set but JSON.stringify drops it; on a primitive or null the      *)
(* assignment throws a TypeError, since class bodies are strict code.     *)
(***************************************************************************)
Tag(r, key) ==
    CASE r.ctx.thrown -> r
      [] r.v.kind = "obj" -> [r EXCEPT !.v = SetProp(r.v, "@classKey", Str(key))]
      [] r.v.kind = "arr" -> r
      [] OTHER -> [r EXCEPT !.ctx = Thrown(r.ctx)]

\* key.toString() of a generated map key; null.toString() throws.
KeyString(v) ==
    CASE v.kind = "str" -> v.s
      [] v.kind = "num" -> v.text
      [] v.kind = "bool" -> IF v.b THEN "true" ELSE "false"
      [] v.kind = "obj" -> "[object Object]"
      [] OTHER -> "null"

(***************************************************************************)
(* ctx.api.referredStructs[key]: referredStructs is the array              *)
(* Object.values(closure) (MethodInfo constructor), so a property name is  *)
(* an element only if it is an index string; "length" is the array's      *)
(* length; any other name is undefined.                                   *)
(***************************************************************************)
ReferredLookup(api, key) ==
    LET arr == api.referredStructs
        idx == {i \in DOMAIN arr : ToString(i - 1) = key}
    IN  CASE idx # {} -> [found |-> "struct", struct |-> arr[CHOOSE i \in idx : TRUE]]
          [] key = "length" /\ Len(arr) > 0 -> [found |-> "number"]
          [] OTHER -> [found |-> "undefined"]

\* structPath.includes(struct): object identity of a bound struct is its
\* canonical string, the key it was stored under.
OnPath(ctx, s) == \E i \in DOMAIN ctx.path : ctx.path[i] = TypeToString(s.type)

RECURSIVE Gen(_, _, _), GenList(_, _, _, _, _), GenMap(_, _, _, _, _, _),
          GenStruct(_, _, _), GenFields(_, _, _, _, _), GenMapStaleKey(_, _, _, _, _, _)

\* Mutant: the value is generated from the context before the key was drawn.
GenMapStaleKey(k, pts, i, ctx, api, acc) ==
    IF ctx.thrown \/ i > Len(pts) THEN [v |-> acc, ctx |-> ctx]
    ELSE LET rk == Gen(k, ctx, api)
             r == Tag(Gen(pts[i][2], ctx, api), pts[i][1])
         IN  GenMap(k, pts, i + 1, r.ctx, api, SetProp(acc, KeyString(rk.v), r.v))

(***************************************************************************)
(* GenericType.generateExampleValue(ctx), branch by branch.                *)
(***************************************************************************)
Gen(t, ctx, api) ==
    IF ctx.thrown THEN [v |-> Null, ctx |-> ctx]
    ELSE CASE t.typeName = "list" ->
                LET e == t.typeArgs[1]
                IN  IF e.possibleTypes # <<>>
                    THEN GenList(e.possibleTypes, 1, ctx, api, <<>>)
                    ELSE LET r == Gen(e, ctx, api)
                         IN  [v |-> Arr(<<r.v>>), ctx |-> r.ctx]
           [] t.typeName = "map" ->
                LET k == t.typeArgs[1]
                    val == t.typeArgs[2]
                IN  IF val.possibleTypes # <<>>
                    THEN GenMap(k, val.possibleTypes, 1, ctx, api, EmptyObj)
                    ELSE LET rk == Gen(k, ctx, api)
                             rv == Gen(val, rk.ctx, api)
                         IN  IF ~rk.ctx.thrown /\ rk.v.kind = "null"
                             THEN [v |-> Null, ctx |-> Thrown(rk.ctx)]
                             ELSE [v |-> SetProp(EmptyObj, KeyString(rk.v), rv.v),
                                   ctx |-> rv.ctx]
           [] t.typeName = "string" ->
                [v |-> Str("string" \o ToString(ctx.seq)), ctx |-> Advance(ctx)]
           [] t.typeName = "char" ->
                [v |-> Str(Letters[(ctx.seq % 26) + 1]), ctx |-> Advance(ctx)]
           [] t.typeName = "date" -> [v |-> Str(DateText(ctx.now)), ctx |-> ctx]
           [] t.typeName = "boolean" ->
                [v |-> Bool(ctx.seq % 2 = 0), ctx |-> Advance(ctx)]
           [] t.typeName = "byte" -> [v |-> Num(ctx.seq % 256), ctx |-> Advance(ctx)]
           [] t.typeName \in {"short", "int", "long"} ->
                [v |-> Num(ctx.seq), ctx |-> Advance(ctx)]
           [] t.typeName \in {"float", "double"} ->
                [v |-> FloatOf(ctx.seq, ctx.seq + 1), ctx |-> Advance(Advance(ctx))]
           [] t.typeName # "" ->
                LET l == ReferredLookup(api, TypeToString(t))
                IN  CASE l.found = "struct" -> GenStruct(l.struct, ctx, api)
                      [] l.found = "number" -> [v |-> Null, ctx |-> Thrown(ctx)]
                      [] OTHER -> [v |-> EmptyObj, ctx |-> ctx]
           [] t.typeVar # "" -> [v |-> Null, ctx |-> ctx]
           [] t.possibleTypes # <<>> ->
                LET pt == t.possibleTypes[(ctx.seq % Len(t.possibleTypes)) + 1]
                IN  Tag(Gen(pt[2], Advance(ctx), api), pt[1])
           [] OTHER -> [v |-> Null, ctx |-> ctx]

\* list<union>: one tagged element per alternative, in key order.
GenList(pts, i, ctx, api, acc) ==
    IF ctx.thrown \/ i > Len(pts) THEN [v |-> Arr(acc), ctx |-> ctx]
    ELSE LET r == Tag(Gen(pts[i][2], ctx, api), pts[i][1])
         IN  GenList(pts, i + 1, r.ctx, api, Append(acc, r.v))

\* map<K, union>: per alternative a fresh key, then the tagged value.
GenMap(k, pts, i, ctx, api, acc) ==
    IF ctx.thrown \/ i > Len(pts) THEN [v |-> acc, ctx |-> ctx]
    ELSE LET rk == Gen(k, ctx, api)
             r == Tag(Gen(pts[i][2], rk.ctx, api), pts[i][1])
         IN  IF ~rk.ctx.thrown /\ rk.v.kind = "null"
             THEN [v |-> acc, ctx |-> Thrown(rk.ctx)]
             ELSE GenMap(k, pts, i + 1, r.ctx, api, SetProp(acc, KeyString(rk.v), r.v))

(***************************************************************************)
(* BoundStruct.generateExampleValue(ctx): a struct already on the path     *)
(* yields {}; otherwise it is pushed, its fields are generated in order   *)
(* and it is popped again.                                                 *)
(***************************************************************************)
GenStruct(s, ctx, api) ==
    IF OnPath(ctx, s) THEN [v |-> EmptyObj, ctx |-> ctx]
    ELSE LET pushed == [ctx EXCEPT !.path = Append(@, TypeToString(s.type))]
             r == GenFields(s.fields, 1, pushed, api, EmptyObj)
         IN  [v |-> r.v, ctx |-> [r.ctx EXCEPT !.path = Front(@)]]

\* FieldInfo.generateExampleValue: the literal example, else a generated value.
GenFields(fs, i, ctx, api, acc) ==
    IF ctx.thrown \/ i > Len(fs) THEN [v |-> acc, ctx |-> ctx]
    ELSE LET f == fs[i]
             r == IF Truthy(LiteralOf(f)) THEN [v |-> LiteralOf(f), ctx |-> ctx]
                  ELSE Gen(f.type, ctx, api)
         IN  GenFields(fs, i + 1, r.ctx, api, SetProp(acc, f.name, r.v))

-----------------------------------------------------------------------------
(***************************************************************************)
(* The requests.  MethodInfo.referredStructs is Object.values of the       *)
(* closure the load built; only its length and index strings can matter   *)
(* to the lookup, so its order is left open.                              *)
(***************************************************************************)
ApiOf(i) == [referredStructs |-> SetToSeq(Range(referred[i]))]

\* generateExampleValue of a MethodInfo or FieldInfo: exampleValue || the
\* type's example, generated with a fresh RandomContext.
Outcome(x, t, i, now) ==
    IF Truthy(LiteralOf(x)) THEN [v |-> LiteralOf(x), ctx |-> NewContext(now)]
    ELSE Gen(t, NewContext(now), ApiOf(i))

\* A request and its outcome; declared is the literal example the schema
\* declares for the method or field, as first parsed (Undefined if none).
Shown(i, t, x, declared, now, r) ==
    [api |-> i, type |-> t, literal |-> Truthy(LiteralOf(x)), declared |-> declared,
     now |-> now, value |-> r.v, thrown |-> r.ctx.thrown]

NoRequest == [api |-> 0, type |-> Basic("null"), literal |-> FALSE, declared |-> Undefined,
              now |-> CHOOSE c \in Clock : TRUE, value |-> Null, thrown |-> FALSE]

\* MethodInfo.formattedExampleValue(): the return type's example.
MethodExample ==
    /\ phase = "loaded"
    /\ \E i \in DOMAIN apis, now \in Clock :
          shown' = Shown(i, Of(apis[i].returnType), apis[i], LiteralOf(apis[i]), now,
                         Outcome(apis[i], Of(apis[i].returnType), i, now))
    /\ UNCHANGED vars

(***************************************************************************)
(* new ParameterInfo(p): the raw literal an api declares for parameter j   *)
(* (in paramExamples, when it declares any) parsed against its type,     *)
(* which is GenericType.of the raw type.                                   *)
(***************************************************************************)
ParameterInfo(api, j) ==
    LET t == Of(api.params[j])
    IN  [type |-> t,
         exampleValue |-> IF "paramExamples" \in DOMAIN api
                          THEN Parse(t, api.paramExamples[j]) ELSE Undefined]

\* ParameterInfo.formattedExampleValue(api).
ParameterExample ==
    /\ phase = "loaded"
    /\ \E i \in DOMAIN apis, now \in Clock :
         \E j \in DOMAIN apis[i].params :
            LET p == ParameterInfo(apis[i], j)
            IN  shown' = Shown(i, p.type, p, p.exampleValue, now, Outcome(p, p.type, i, now))
    /\ UNCHANGED vars

\* FieldInfo.formattedExampleValue(api) for a field of a referred struct.
FieldExample ==
    /\ phase = "loaded"
    /\ \E i \in DOMAIN apis, now \in Clock :
         \E s \in Range(referred[i]) : \E j \in DOMAIN s.fields :
            LET f == s.fields[j]
            IN  shown' = Shown(i, f.type, f, LiteralOf(structs[s.name].fields[j]), now,
                               Outcome(f, f.type, i, now))
    /\ UNCHANGED vars

SynthInit == Init /\ shown = NoRequest

SynthNext ==
    \/ Next /\ UNCHANGED shown
    \/ MethodExample
    \/ ParameterExample
    \/ FieldExample

(***************************************************************************)
(* The load runs to completion (as in StructClosure); requests come from  *)
(* the reader, who owes none.                                              *)
(***************************************************************************)
SynthSpec == SynthInit /\ [][SynthNext]_synthVars /\ WF_vars(Next)

-----------------------------------------------------------------------------
(***************************************************************************)
(* Reference shapes (spec 4.4): the value a type's example must have.      *)
(* list<union> and map<K, union> carry one element per alternative, each  *)
(* tagged with its key; a union's example is tagged with the key of the   *)
(* alternative it conforms to; a struct reference yields an object.        *)
(***************************************************************************)
RECURSIVE Conforms(_, _), TaggedAs(_, _)
Conforms(v, t) ==
    CASE t.typeName = "list" ->
            LET e == t.typeArgs[1]
            IN  /\ v.kind = "arr"
                /\ IF e.possibleTypes # <<>>
                   THEN /\ Len(v.items) = Len(e.possibleTypes)
                        /\ \A i \in DOMAIN v.items : TaggedAs(v.items[i], e.possibleTypes[i])
                   ELSE Len(v.items) = 1 /\ Conforms(v.items[1], e)
      [] t.typeName = "map" ->
            LET val == t.typeArgs[2]
            IN  /\ v.kind = "obj"
                /\ IF val.possibleTypes # <<>>
                   THEN /\ Cardinality(DOMAIN v.entries) = Len(val.possibleTypes)
                        /\ \A i \in DOMAIN val.possibleTypes :
                              \E k \in DOMAIN v.entries : TaggedAs(v.entries[k], val.possibleTypes[i])
                   ELSE /\ Cardinality(DOMAIN v.entries) = 1
                        /\ \A k \in DOMAIN v.entries : Conforms(v.entries[k], val)
      [] t.typeName \in {"string", "char", "date"} -> v.kind = "str"
      [] t.typeName = "boolean" -> v.kind = "bool"
      [] t.typeName \in {"byte", "short", "int", "long", "float", "double"} -> v.kind = "num"
      [] t.typeName # "" -> v.kind = "obj"
      [] t.typeVar # "" -> v.kind = "null"
      [] t.possibleTypes # <<>> -> \E i \in DOMAIN t.possibleTypes : TaggedAs(v, t.possibleTypes[i])
      [] OTHER -> v.kind = "null"

TaggedAs(v, pt) ==
    /\ v.kind = "obj"
    /\ "@classKey" \in DOMAIN v.entries
    /\ v.entries["@classKey"].kind = "str"
    /\ v.entries["@classKey"].s = pt[1]
    /\ Conforms(v, pt[2])

\* The spec's date form YYYY-MM-DD HH:MM:SS.
IsoText(now) == now.y \o "-" \o now.mo \o "-" \o now.d \o " "
                \o now.h \o ":" \o now.mi \o ":" \o now.s

(***************************************************************************)
(* Every synthesized example (no literal override) is produced without a   *)
(* TypeError and has its type's shape: generateExampleValue's branches,    *)
(* the union tagging, and one fresh key per alternative in map<K, union>.  *)
(***************************************************************************)
ExampleConforms ==
    shown.api # 0 /\ ~shown.literal =>
        ~shown.thrown /\ Conforms(shown.value, shown.type)

(***************************************************************************)
(* A date example is the request's time as YYYY-MM-DD HH:MM:SS (spec 4.4). *)
(***************************************************************************)
DateIsIso ==
    shown.api # 0 /\ shown.type = Basic("date") => shown.value.s = IsoText(shown.now)

(***************************************************************************)
(* A struct reference's example holds a value for each field of the bound  *)
(* struct the method refers to (spec 4.4, "generate the struct's          *)
(* example"); only a struct already on the expansion path yields {}.       *)
(***************************************************************************)
StructExampleHasFields ==
    LET t == shown.type
        key == TypeToString(t)
    IN  /\ shown.api # 0 /\ ~shown.literal /\ ~shown.thrown
        /\ key \in DOMAIN referred[shown.api]
        => \A j \in DOMAIN referred[shown.api][key].fields :
              referred[shown.api][key].fields[j].name \in DOMAIN shown.value.entries

(***************************************************************************)
(* An author-supplied literal example, parsed once against the declared   *)
(* type (spec 3, FieldInfo), is returned as-is instead of synthesizing    *)
(* (spec 4.4, override precedence).  At risk: generateExampleValue's      *)
(* `exampleValue || ...` drops falsy literals, and asBoundField hands the *)
(* parsed value to the FieldInfo constructor, which parses it again.       *)
(***************************************************************************)
LiteralOverridesSynthesis ==
    shown.api # 0 /\ shown.declared # Undefined => shown.value = shown.declared


\* A type and every type written inside it.
RECURSIVE SubTypes(_)
SubTypes(t) ==
    {t} \cup UNION {SubTypes(t.typeArgs[i]) : i \in DOMAIN t.typeArgs}
        \cup UNION {SubTypes(t.possibleTypes[i][2]) : i \in DOMAIN t.possibleTypes}

(***************************************************************************)
(* The title of every type shown (spec 4.1): where no union occurs it is  *)
(* the canonical string toString gives, and a union reads "(a | b)" with   *)
(* its keys, "(a | b | c | ..)" beyond three alternatives.  At risk: the  *)
(* `length > 3` test of get title() and the branches it shares with       *)
(* toString, which are written twice.                                      *)
(***************************************************************************)
TitleAbbreviatesUnions ==
    shown.api # 0 =>
        \A u \in SubTypes(shown.type) :
            LET ks == UnionKeys(u)
            IN  /\ (\A v \in SubTypes(u) : v.possibleTypes = <<>>)
                      => Title(u) = TypeToString(u)
                /\ u.possibleTypes # <<>> /\ Len(ks) <= 3
                      => Title(u) = "(" \o JoinStr(ks, " | ") \o ")"
                /\ u.possibleTypes # <<>> /\ Len(ks) > 3
                      => Title(u) = "(" \o ks[1] \o " | " \o ks[2] \o " | " \o ks[3] \o " | ..)"

=============================================================================
