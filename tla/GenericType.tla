---------------------------- MODULE GenericType ----------------------------
(***************************************************************************)
(* The type model of main.js: class GenericType.  A type is one of         *)
(*   - a named type   typeName, optional typeArgs (list, map, primitive or *)
(*                    struct reference),                                   *)
(*   - a type variable typeVar,                                            *)
(*   - a union        possibleTypes, an ordered key -> type mapping.       *)
(* Every type is a record with all five fields; the fields that the JS     *)
(* object leaves undefined hold "" or <<>>.  A null typeArgs is <<>>: the  *)
(* schema writes a non-parameterized type as a bare string, so an empty    *)
(* typeArgs array never occurs.  A union's possibleTypes is a sequence of  *)
(* <<key, type>> pairs, in Object.entries order.                           *)
(*                                                                         *)
(* The canonical string (toString, here TypeToString) is computed as a    *)
(* real TLA+ string, so two types share a closure key exactly when the JS  *)
(* strings are equal.                                                      *)
(***************************************************************************)
EXTENDS Integers, Sequences, SequencesExt

\* The closed primitive set of isBasicType.
Primitives == {"boolean", "byte", "char", "short", "int", "long",
               "float", "double", "string", "date"}

\* new GenericType({typeName, typeArgs}), GenericType.normalType/parameterizedType.
Named(n, args) == [typeName |-> n, typeArgs |-> args, typeVar |-> "",
                   possibleTypes |-> <<>>]

\* GenericType.typeVariable(v).
TypeVariable(v) == [typeName |-> "", typeArgs |-> <<>>, typeVar |-> v,
                    possibleTypes |-> <<>>]

\* GenericType.unionType(pts): pts is a sequence of <<key, type>> pairs.
UnionType(pts) == [typeName |-> "", typeArgs |-> <<>>, typeVar |-> "",
                   possibleTypes |-> pts]

\* GenericType.listType(e) and the two-argument map type.
ListType(e) == Named("list", <<e>>)
MapType(k, v) == Named("map", <<k, v>>)
Basic(n) == Named(n, <<>>)

\* isBasicType(): a named type whose name is in the primitive set.
IsBasicType(t) == t.typeName \in Primitives

\* The types listed in a union, in key order.
Alternatives(t) == [i \in DOMAIN t.possibleTypes |-> t.possibleTypes[i][2]]

\* Strings joined with a separator, as Array.prototype.join does.
JoinStr(s, sep) ==
    IF s = <<>> THEN ""
    ELSE FoldLeft(LAMBDA acc, x : acc \o sep \o x, Head(s), Tail(s))

(***************************************************************************)
(* The schema gives a type as a JSON object with the same fields, or as a *)
(* bare JSON string, written [bare |-> name].  GenericType.of builds a new *)
(* GenericType from a raw object, and the constructor rebuilds its type   *)
(* arguments and union alternatives with GenericType.of in turn.  The     *)
(* constructor destructures {typeName, typeArgs, typeVar, possibleTypes}  *)
(* from its argument: a string has none of these properties, so a bare    *)
(* string becomes a GenericType with every field undefined.               *)
(***************************************************************************)
Bare(n) == [bare |-> n]
IsBare(raw) == "bare" \in DOMAIN raw

\* A GenericType with every field undefined; toString gives "null".
NoType == [typeName |-> "", typeArgs |-> <<>>, typeVar |-> "", possibleTypes |-> <<>>]

RECURSIVE Of(_)
Of(raw) ==
    CASE IsBare(raw) -> NoType
      [] raw.typeArgs = <<>> /\ raw.possibleTypes = <<>> -> raw
      [] OTHER -> [raw EXCEPT
            !.typeArgs = [i \in DOMAIN raw.typeArgs |-> Of(raw.typeArgs[i])],
            !.possibleTypes = [i \in DOMAIN raw.possibleTypes |->
                                 <<raw.possibleTypes[i][1], Of(raw.possibleTypes[i][2])>>]]

(***************************************************************************)
(* resolveTypeVars(binding): a type variable bound in the binding is       *)
(* replaced by its actual type, an unbound one is returned unchanged; a    *)
(* named type without arguments is returned as is, one with arguments is  *)
(* rebuilt from its resolved arguments; a union is rebuilt alternative by  *)
(* alternative with the same keys.  The binding is a function from        *)
(* variable names to types (the JS Map).                                   *)
(***************************************************************************)
RECURSIVE ResolveTypeVars(_, _)
ResolveTypeVars(t, binding) ==
    CASE t.typeVar # "" ->
            IF t.typeVar \in DOMAIN binding THEN binding[t.typeVar] ELSE t
      [] t.typeName # "" ->
            IF t.typeArgs = <<>> THEN t
            ELSE Named(t.typeName, [i \in DOMAIN t.typeArgs |->
                                      ResolveTypeVars(t.typeArgs[i], binding)])
      [] t.possibleTypes # <<>> ->
            UnionType([i \in DOMAIN t.possibleTypes |->
                        <<t.possibleTypes[i][1],
                          ResolveTypeVars(t.possibleTypes[i][2], binding)>>])
      [] OTHER -> t

(***************************************************************************)
(* toString(): the canonical string used as the closure key.  list and map *)
(* are bracketed, other parameterized names get <..>, a union lists its    *)
(* key:type entries separated by " | " with no brackets around them.       *)
(***************************************************************************)
RECURSIVE TypeToString(_)
TypeToString(t) ==
    CASE t.typeName = "list" -> "[" \o TypeToString(t.typeArgs[1]) \o "]"
      [] t.typeName = "map" ->
            "[" \o TypeToString(t.typeArgs[1]) \o ": " \o TypeToString(t.typeArgs[2]) \o "]"
      [] t.typeArgs # <<>> ->
            t.typeName \o "<"
              \o JoinStr([i \in DOMAIN t.typeArgs |-> TypeToString(t.typeArgs[i])], ", ")
              \o ">"
      [] t.typeName # "" -> t.typeName
      [] t.typeVar # "" -> t.typeVar
      [] t.possibleTypes # <<>> ->
            JoinStr([i \in DOMAIN t.possibleTypes |->
                       t.possibleTypes[i][1] \o ":" \o TypeToString(t.possibleTypes[i][2])],
                    " | ")
      [] OTHER -> "null"


\* The first n elements of a sequence (Array.prototype.slice(0, n)).
Prefix(s, n) == SubSeq(s, 1, IF n < Len(s) THEN n ELSE Len(s))

\* The keys of a union, in Object.entries order.
UnionKeys(t) == [i \in DOMAIN t.possibleTypes |-> t.possibleTypes[i][1]]

\* A union shortened already at three keys.
TruncatedAtThree(t) == Len(t.possibleTypes) >= 3

\* possibleTypes.length > 3: the title of the union is shortened.
Truncated(t) == Len(t.possibleTypes) > 3

(***************************************************************************)
(* get title(): the form shown to the reader.  It follows toString except  *)
(* that a union shows its keys only, in brackets, and a union of more     *)
(* than three shows the first three and "..".  The value is memoized on   *)
(* the instance; a title is never empty, so the memo is always used and   *)
(* the operator is the value.                                              *)
(***************************************************************************)
RECURSIVE Title(_)
Title(t) ==
    CASE t.typeName = "list" -> "[" \o Title(t.typeArgs[1]) \o "]"
      [] t.typeName = "map" ->
            "[" \o Title(t.typeArgs[1]) \o ": " \o Title(t.typeArgs[2]) \o "]"
      [] t.typeArgs # <<>> ->
            t.typeName \o "<"
              \o JoinStr([i \in DOMAIN t.typeArgs |-> Title(t.typeArgs[i])], ", ")
              \o ">"
      [] t.typeName # "" -> t.typeName
      [] t.typeVar # "" -> t.typeVar
      [] t.possibleTypes # <<>> ->
            IF Truncated(t)
            THEN "(" \o JoinStr(Prefix(UnionKeys(t), 3), " | ") \o " | .." \o ")"
            ELSE "(" \o JoinStr(UnionKeys(t), " | ") \o ")"
      [] OTHER -> "null"

=============================================================================
