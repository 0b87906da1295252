---------------------------- MODULE ExampleValues ----------------------------
(***************************************************************************)
(* Example values and class ExampleValues of main.js.  A value is a       *)
(* JSON-visible JS value:                                                  *)
(*   [kind "str", s]  [kind "num", text]  [kind "bool", b]  [kind "null"]  *)
(*   [kind "arr", items]  [kind "obj", entries: key string -> value]       *)
(* or undefined.  A number keeps the decimal text String(n) gives.         *)
(*                                                                         *)
(* JSON.parse is modelled by what it does on a fixed corpus of example     *)
(* texts; any other text is malformed.                                     *)
(***************************************************************************)
EXTENDS GenericType

Str(s) == [kind |-> "str", s |-> s]
Num(n) == [kind |-> "num", text |-> ToString(n)]
Bool(b) == [kind |-> "bool", b |-> b]
Null == [kind |-> "null"]
Undefined == [kind |-> "undefined"]
Arr(items) == [kind |-> "arr", items |-> items]
Obj(entries) == [kind |-> "obj", entries |-> entries]
EmptyObj == Obj([k \in {} |-> Null])

\* obj[k] = v on a JS object: the key is added or overwritten.
SetProp(o, k, v) == Obj([x \in DOMAIN o.entries \cup {k} |->
                          IF x = k THEN v ELSE o.entries[x]])

\* JS truthiness: what `exampleValue || ...` keeps.
Truthy(v) ==
    CASE v.kind \in {"undefined", "null"} -> FALSE
      [] v.kind = "bool" -> v.b
      [] v.kind = "num" -> v.text \notin {"0", "-0", "NaN"}
      [] v.kind = "str" -> v.s # ""
      [] OTHER -> TRUE

\* JSON.parse on the example texts the schemas carry.
JsonCorpus ==
    ("0" :> Num(0)) @@ ("7" :> Num(7)) @@ ("\"7\"" :> Str("7"))
    @@ ("{\"id\":7}" :> Obj("id" :> Num(7)))

IsJson(text) == text \in DOMAIN JsonCorpus

(***************************************************************************)
(* ExampleValues.parse(type, text): a value that is not a string, or any   *)
(* value for a primitive type, is returned as is; a non-empty string is   *)
(* JSON-parsed, and a parse error is caught and gives undefined; an empty *)
(* string gives undefined.                                                 *)
(***************************************************************************)
Parse(t, x) ==
    CASE x.kind # "str" \/ IsBasicType(t) -> x
      [] x.s # "" -> IF IsJson(x.s) THEN JsonCorpus[x.s] ELSE Undefined
      [] OTHER -> Undefined

\* The exampleValue a FieldInfo or MethodInfo record carries; none is undefined.
LiteralOf(x) == IF "exampleValue" \in DOMAIN x THEN x.exampleValue ELSE Undefined

=============================================================================
