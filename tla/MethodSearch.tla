---------------------------- MODULE MethodSearch ----------------------------
(***************************************************************************)
(* What the viewer searches: the searchableText the MethodInfo constructor *)
(* builds, matchesKeyword, and the normalisation updateSearchResult       *)
(* applies to the query.  A MethodInfo is built from a schema api and the *)
(* struct registry; its referred structs and issues are the reference     *)
(* closure of its parameter and return types, which the load computes     *)
(* (StructClosure checks ClosureMatchesReference and refines LoadSpec).   *)
(*                                                                         *)
(* Strings are TLA+ strings handled one character at a time; letters are  *)
(* ASCII and the only blank is the space.                                 *)
(***************************************************************************)
EXTENDS ClosureReference

Lower == "abcdefghijklmnopqrstuvwxyz"
Upper == "ABCDEFGHIJKLMNOPQRSTUVWXYZ"

CharAt(s, i) == SubSeq(s, i, i)

\* String.prototype.toUpperCase on ASCII text.
ToUpperCase(s) ==
    LET up(c) == IF \E j \in 1..26 : CharAt(Lower, j) = c
                 THEN CharAt(Upper, CHOOSE j \in 1..26 : CharAt(Lower, j) = c)
                 ELSE c
    IN  FoldLeft(LAMBDA acc, i : acc \o up(CharAt(s, i)), "", [i \in 1..Len(s) |-> i])

\* String.prototype.trim: leading and trailing blanks removed.
Trim(s) ==
    LET inner == {i \in 1..Len(s) : CharAt(s, i) # " "}
    IN  IF inner = {} THEN ""
        ELSE SubSeq(s, CHOOSE i \in inner : \A j \in inner : i <= j,
                       CHOOSE i \in inner : \A j \in inner : i >= j)

\* String.prototype.includes.
Includes(text, s) ==
    \E i \in 0..Len(text) - Len(s) : SubSeq(text, i + 1, i + Len(s)) = s

\* methodName.indexOf('.'), 0-based, -1 when absent.
IndexOfDot(name) ==
    IF \E i \in 1..Len(name) : CharAt(name, i) = "."
    THEN (CHOOSE i \in 1..Len(name) : CharAt(name, i) = "."
            /\ \A j \in 1..i - 1 : CharAt(name, j) # ".") - 1
    ELSE -1

\* methodName.substring(0, indexOf('.')): a negative end counts as 0.
GroupOf(name) == SubSeq(name, 1, IndexOfDot(name))

\* The query updateSearchResult searches for: this.query.trim().toUpperCase().
QueryKey(q) == ToUpperCase(Trim(q))

\* The text of an issue structClosure pushes for an unregistered struct.
IssueText(n) == "could not find struct " \o n

\* A searchableText that leaves out the issues.
SearchableTextNoIssues(api, reg) ==
    LET refNames == {RefClosure(reg, api)[k].name : k \in DOMAIN RefClosure(reg, api)}
        lines == <<api.methodName>>
                 \o (IF api.description # "" THEN <<api.description>> ELSE <<>>)
                 \o SetToSeq(refNames)
    IN  JoinStr([i \in DOMAIN lines |-> ToUpperCase(lines[i])], "\n")

(***************************************************************************)
(* The MethodInfo constructor's searchableText: the upper-cased method    *)
(* name, the description if any, the name of every referred struct and    *)
(* every issue, joined by newlines.  Object.values order of the closure   *)
(* and the issue order do not matter to a query, which holds no newline.  *)
(***************************************************************************)
SearchableText(api, reg) ==
    LET refNames == {RefClosure(reg, api)[k].name : k \in DOMAIN RefClosure(reg, api)}
        lines == <<api.methodName>>
                 \o (IF api.description # "" THEN <<api.description>> ELSE <<>>)
                 \o SetToSeq(refNames)
                 \o SetToSeq({IssueText(n) : n \in RefIssues(reg, api)})
    IN  JoinStr([i \in DOMAIN lines |-> ToUpperCase(lines[i])], "\n")

\* The MethodInfo fields the viewer reads.
MethodInfo(api, reg) ==
    [name |-> api.methodName, group |-> GroupOf(api.methodName),
     dotted |-> IndexOfDot(api.methodName) >= 0, level |-> api.securityLevel,
     params |-> [i \in DOMAIN api.params |-> Of(api.params[i])],
     returnType |-> Of(api.returnType),
     searchableText |-> SearchableText(api, reg)]

\* MethodInfo.matchesKeyword(keyword).
MatchesKeyword(m, keyword) == Includes(m.searchableText, keyword)

=============================================================================
