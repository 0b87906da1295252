----------------------------- MODULE ApiViewer -----------------------------
(***************************************************************************)
(* The viewer's Vue application (main.js, `let app = new Vue(...)`): its   *)
(* data fields are the VARIABLES and each handler, computed setter and    *)
(* the schema delivery is an action that runs the whole handler,          *)
(* including the updateFilterResult / updateSearchResult calls it makes.  *)
(*                                                                         *)
(* A MethodInfo is the record MethodSearch builds from a schema api and   *)
(* the registry Structs: name, group, dotted, level, its types and its    *)
(* searchableText.  A query is the raw text typed; updateSearchResult     *)
(* trims and upper-cases it and matches it with matchesKeyword.           *)
(* updateApiSchema gets an upstream error document or a schema; new       *)
(* ApiDocument builds one MethodInfo per api and throws when an api       *)
(* reaches an unbindable struct (RefThrows, as StructClosure shows the    *)
(* load does).                                                             *)
(***************************************************************************)
EXTENDS MethodSearch

CONSTANTS
    Structs,        \* the struct registry of the schemas
    Schemas,        \* the apis of each schema the page may deliver
    ErrorDelivered, \* whether the page may deliver an error document instead
    Queries,        \* query texts the user may type
    Scopes,         \* scope values the selector offers
    NoApi           \* selectedApi = null

VARIABLES
    scopeValue, queryValue, expandedGroupNames, selectedApi, searchResult,
    loaded, apiSchemaError, groups, apis, apiSchema,
    delivered       \* the page has called updateApiSchema (at most once)

vars == <<scopeValue, queryValue, expandedGroupNames, selectedApi, searchResult,
          loaded, apiSchemaError, groups, apis, apiSchema, delivered>>

\* apiSchema before a load holds the ApiDocument class, whose apis is undefined.
NoDocument == [isClass |-> TRUE, apis |-> <<>>]

\* new ApiDocument(schema): one MethodInfo per api, in document order.
ApiDocument(as) == [isClass |-> FALSE,
                    apis |-> [i \in DOMAIN as |-> MethodInfo(as[i], Structs)]]

\* The constructor throws: some api reaches a struct it cannot bind.
ApiDocumentThrows(as) == \E i \in DOMAIN as : RefThrows(Structs, as[i])

\* The scope filter of updateFilterResult: which security levels a scope shows.
ScopeAdmits(scope, level) ==
    CASE scope = "client" ->
            level \in {"Anonym", "User", "UnidentifiedUser", "RegisteredDevice"}
      [] scope = "backend" -> level \in {"AuthorizedUser", "InternalUser", "SubSystem"}
      [] scope = "internal" -> level = "Internal"
      [] scope = "integrated" -> level = "Integrated"
      [] OTHER -> TRUE

\* updateFilterResult: the apis the scope admits, in document order.
FilterApis(doc, scope) == SelectSeq(doc.apis, LAMBDA m : ScopeAdmits(scope, m.level))

\* updateFilterResult: groups in order of first appearance, apis appended.
GroupsOf(as) ==
    FoldLeft(LAMBDA gs, m :
                IF \E i \in DOMAIN gs : gs[i].groupName = m.group
                THEN LET i == CHOOSE j \in DOMAIN gs : gs[j].groupName = m.group
                     IN  [gs EXCEPT ![i].apis = Append(@, m)]
                ELSE Append(gs, [groupName |-> m.group, apis |-> <<m>>]),
             <<>>, as)

GroupNames(gs) == [i \in DOMAIN gs |-> gs[i].groupName]

\* updateSearchResult, non-blank query: groups with their matching apis.
Searched(gs, q) ==
    LET hits == [i \in DOMAIN gs |->
                   [groupName |-> gs[i].groupName,
                    apis |-> SelectSeq(gs[i].apis,
                                       LAMBDA m : MatchesKeyword(m, QueryKey(q)))]]
    IN  SelectSeq(hits, LAMBDA g : g.apis # <<>>)

\* The searchResult updateSearchResult computes from groups and the query.
SearchResultFor(gs, q) == IF QueryKey(q) = "" THEN gs ELSE Searched(gs, q)

\* Mutant: the single hit's group is pushed without the includes check.
ExpandedForNoCheck(gs, q) ==
    IF QueryKey(q) = "" THEN <<>>
    ELSE LET r == Searched(gs, q)
             e == GroupNames(r)
         IN  IF Len(r) = 1 /\ Len(r[1].apis) = 1
             THEN Append(e, r[1].groupName)
             ELSE e

\* The expandedGroupNames it computes: none for a blank query, else every
\* group found, then the group of a single hit unless already there.
ExpandedFor(gs, q) ==
    IF QueryKey(q) = "" THEN <<>>
    ELSE LET r == Searched(gs, q)
             e == GroupNames(r)
         IN  IF Len(r) = 1 /\ Len(r[1].apis) = 1 /\ ~Contains(e, r[1].groupName)
             THEN Append(e, r[1].groupName)
             ELSE e

\* updateSearchResult over the given groups and query.
UpdateSearchResult(gs, q) ==
    /\ searchResult' = SearchResultFor(gs, q)
    /\ expandedGroupNames' = ExpandedFor(gs, q)

\* updateFilterResult then updateSearchResult, for a scope and a query.
UpdateFilterAndSearch(doc, scope, q) ==
    LET as == FilterApis(doc, scope)
    IN  /\ apis' = as
        /\ groups' = GroupsOf(as)
        /\ UpdateSearchResult(GroupsOf(as), q)

-----------------------------------------------------------------------------
\* Mutant: the query setter lists the filtered apis instead of the groups.
SetQueryApis(q) ==
    /\ queryValue' = q
    /\ searchResult' = apis
    /\ expandedGroupNames' = ExpandedFor(groups, q)
    /\ UNCHANGED <<scopeValue, selectedApi, loaded, apiSchemaError, groups,
                   apis, apiSchema, delivered>>

\* The query setter.
SetQuery(q) ==
    /\ queryValue' = q
    /\ UpdateSearchResult(groups, q)
    /\ UNCHANGED <<scopeValue, selectedApi, loaded, apiSchemaError, groups,
                   apis, apiSchema, delivered>>

(***************************************************************************)
(* The scope setter.  Before a document is loaded updateFilterResult       *)
(* iterates the class's undefined apis and throws: scopeValue is already  *)
(* stored, nothing else changes.                                           *)
(***************************************************************************)
SetScopeBeforeLoad(s) ==
    /\ apiSchema = NoDocument
    /\ scopeValue' = s
    /\ UNCHANGED <<queryValue, expandedGroupNames, selectedApi, searchResult,
                   loaded, apiSchemaError, groups, apis, apiSchema, delivered>>

\* Mutant: the scope setter filters but does not search again.
SetScopeNoSearch(s) ==
    /\ apiSchema # NoDocument
    /\ scopeValue' = s
    /\ apis' = FilterApis(apiSchema, s)
    /\ groups' = GroupsOf(FilterApis(apiSchema, s))
    /\ UNCHANGED <<queryValue, expandedGroupNames, searchResult, selectedApi,
                   loaded, apiSchemaError, apiSchema, delivered>>

SetScope(s) ==
    /\ apiSchema # NoDocument
    /\ scopeValue' = s
    /\ UpdateFilterAndSearch(apiSchema, s, queryValue)
    /\ UNCHANGED <<queryValue, selectedApi, loaded, apiSchemaError, apiSchema,
                   delivered>>

(***************************************************************************)
(* expandGroup(group), for a group the page lists (one of searchResult):   *)
(* a collapsed group is expanded; an expanded one is collapsed, and the   *)
(* selected api is deselected if its name starts with the group name and  *)
(* a dot.                                                                  *)
(***************************************************************************)
ExpandGroup(g) ==
    /\ g \in ToSet(GroupNames(searchResult))
    /\ IF ~Contains(expandedGroupNames, g)
         THEN /\ expandedGroupNames' = Append(expandedGroupNames, g)
              /\ UNCHANGED selectedApi
         ELSE /\ selectedApi' = IF /\ selectedApi # NoApi
                                   /\ selectedApi.dotted
                                   /\ selectedApi.group = g
                                THEN NoApi ELSE selectedApi
              /\ expandedGroupNames' = RemoveFirst(expandedGroupNames, g)
    /\ UNCHANGED <<scopeValue, queryValue, searchResult, loaded, apiSchemaError,
                   groups, apis, apiSchema, delivered>>

\* selectApi(api), for an api listed under an expanded group.
SelectApi(m) ==
    /\ \E i \in DOMAIN searchResult :
          /\ Contains(expandedGroupNames, searchResult[i].groupName)
          /\ Contains(searchResult[i].apis, m)
    /\ selectedApi' = m
    /\ UNCHANGED <<scopeValue, queryValue, expandedGroupNames, searchResult,
                   loaded, apiSchemaError, groups, apis, apiSchema, delivered>>

\* updateApiSchema with an error document: the error is shown.
LoadSchemaError ==
    /\ ~delivered /\ ErrorDelivered
    /\ delivered' = TRUE
    /\ apiSchemaError' = "error"
    /\ loaded' = TRUE
    /\ UNCHANGED <<scopeValue, queryValue, expandedGroupNames, selectedApi,
                   searchResult, groups, apis, apiSchema>>

\* updateApiSchema where new ApiDocument throws: no field is assigned.
LoadSchemaThrows ==
    /\ ~delivered
    /\ \E as \in Schemas : ApiDocumentThrows(as)
    /\ delivered' = TRUE
    /\ UNCHANGED <<scopeValue, queryValue, expandedGroupNames, selectedApi,
                   searchResult, loaded, apiSchemaError, groups, apis, apiSchema>>

\* updateApiSchema with a document: store it, filter, search.
LoadSchema ==
    /\ ~delivered
    /\ \E as \in Schemas :
          /\ ~ApiDocumentThrows(as)
          /\ apiSchema' = ApiDocument(as)
          /\ UpdateFilterAndSearch(ApiDocument(as), scopeValue, queryValue)
    /\ delivered' = TRUE
    /\ loaded' = TRUE
    /\ UNCHANGED <<scopeValue, queryValue, selectedApi, apiSchemaError>>

Init ==
    /\ scopeValue = "all"
    /\ queryValue = ""
    /\ expandedGroupNames = <<>>
    /\ selectedApi = NoApi
    /\ searchResult = <<>>
    /\ loaded = FALSE
    /\ apiSchemaError = "none"
    /\ groups = <<>>
    /\ apis = <<>>
    /\ apiSchema = NoDocument
    /\ delivered = FALSE

Next ==
    \/ \E q \in Queries : SetQuery(q)
    \/ \E s \in Scopes : SetScopeBeforeLoad(s) \/ SetScope(s)
    \/ \E g \in ToSet(GroupNames(searchResult)) : ExpandGroup(g)
    \/ \E m \in UNION {ToSet(g.apis) : g \in ToSet(searchResult)} : SelectApi(m)
    \/ LoadSchemaError \/ LoadSchemaThrows \/ LoadSchema

\* User events and the page's one call to updateApiSchema, in any order.
Spec == Init /\ [][Next]_vars

-----------------------------------------------------------------------------
\* The MethodInfos of the loaded document.
DocApis == ToSet(apiSchema.apis)

\* A list of groups as updateFilterResult and updateSearchResult build them.
IsGroupList(gs) ==
    /\ DOMAIN gs = 1..Len(gs)
    /\ \A i \in DOMAIN gs :
          /\ DOMAIN gs[i] = {"groupName", "apis"}
          /\ gs[i].groupName \in {m.group : m \in DocApis}
          /\ gs[i].apis \in Seq(DocApis)

TypeOK ==
    /\ scopeValue \in Scopes \cup {"all"}
    /\ queryValue \in Queries \cup {""}
    /\ expandedGroupNames \in Seq({m.group : m \in DocApis})
    /\ selectedApi \in DocApis \cup {NoApi}
    /\ IsGroupList(searchResult)
    /\ IsGroupList(groups)
    /\ apis \in Seq(DocApis)
    /\ loaded \in BOOLEAN
    /\ apiSchemaError \in {"none", "error"}
    /\ apiSchema.isClass \in BOOLEAN
    /\ apiSchema.isClass => apiSchema = NoDocument
    /\ delivered \in BOOLEAN

\* The methods the current scope and query should list.
Visible ==
    {m \in DocApis :
        /\ ScopeAdmits(scopeValue, m.level)
        /\ QueryKey(queryValue) = "" \/ MatchesKeyword(m, QueryKey(queryValue))}

(***************************************************************************)
(* Whatever order the scope, query and schema-delivery events came in,     *)
(* once a document is loaded the listed search result holds exactly the   *)
(* methods the current scope admits and the current query matches, each  *)
(* under its own group, one entry per group and no empty group; before a  *)
(* document is loaded nothing is listed.  Scope changes made before the   *)
(* load (whose setter throws) must still be honoured by the load.         *)
(***************************************************************************)
SearchShowsScopeAndQuery ==
    /\ apiSchema = NoDocument => searchResult = <<>>
    /\ apiSchema # NoDocument =>
          /\ UNION {ToSet(g.apis) : g \in ToSet(searchResult)} = Visible
          /\ \A i \in DOMAIN searchResult :
                /\ searchResult[i].apis # <<>>
                /\ \A j \in DOMAIN searchResult[i].apis :
                      searchResult[i].apis[j].group = searchResult[i].groupName
          /\ IsInjective(GroupNames(searchResult))

(***************************************************************************)
(* The expanded groups are distinct and are all groups of the listed       *)
(* search result, across searches, scope changes and expand/collapse      *)
(* toggles.                                                                *)
(***************************************************************************)
ExpandedGroupsListed ==
    /\ IsInjective(expandedGroupNames)
    /\ ToSet(expandedGroupNames) \subseteq ToSet(GroupNames(searchResult))

(***************************************************************************)
(* The selected api lies in an expanded group.  expandGroup keeps this:   *)
(* collapsing the group of the selected api deselects it.  A later search *)
(* (query or scope setter, updateSearchResult) replaces expandedGroupNames *)
(* and must not leave a selection behind in a collapsed group.            *)
(***************************************************************************)
SelectionInExpandedGroup ==
    selectedApi # NoApi => Contains(expandedGroupNames, selectedApi.group)


(***************************************************************************)
(* A query naming, in any case and between blanks, a struct that a listed *)
(* method's parameter or return type reaches lists that method: the       *)
(* MethodInfo constructor puts every referred struct's name and every     *)
(* issue ("could not find struct X") into searchableText, so a struct is  *)
(* found whether the load bound it or could not find it.                  *)
(***************************************************************************)
ReferencedStructsFound ==
    LET listed == UNION {ToSet(g.apis) : g \in ToSet(searchResult)}
    IN  \A m \in ToSet(apis) :
          \A t \in Reachable(Structs, m) :
             IsStructRef(t) /\ QueryKey(queryValue) = ToUpperCase(t.typeName)
                => m \in listed

=============================================================================
