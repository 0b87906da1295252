---------------------------- MODULE MC_ApiViewer ----------------------------
(***************************************************************************)
(* Two schemas over one registry: UserOrder { user: User },               *)
(* User { name: string }, Box<T> { value: T }.  The first has four         *)
(* methods in two named groups and one without a dot (group ""), at        *)
(* security levels that each scope splits differently; ping returns the   *)
(* unregistered Audit.  The second uses Box raw, so new ApiDocument        *)
(* throws.  Queries: blank, blanks only, one matching three methods of    *)
(* two groups (by name and by struct), one with a single hit, and one     *)
(* found only through an issue.                                           *)
(***************************************************************************)
EXTENDS ApiViewer

CONSTANTS NoApiValue

MCStructs ==
    ("User" :> [name |-> "User", typeVars |-> <<>>,
                fields |-> <<[name |-> "name", type |-> Basic("string")]>>])
    @@ ("UserOrder" :> [name |-> "UserOrder", typeVars |-> <<>>,
                        fields |-> <<[name |-> "user", type |-> Named("User", <<>>)]>>])
    @@ ("Box" :> [name |-> "Box", typeVars |-> <<"T">>,
                  fields |-> <<[name |-> "value", type |-> TypeVariable("T")]>>])

Api(name, level, desc, params, ret) ==
    [methodName |-> name, securityLevel |-> level, description |-> desc,
     params |-> params, returnType |-> ret]

UserGet   == Api("user.get", "User", "", <<Basic("long")>>, Named("User", <<>>))
UserBan   == Api("user.ban", "InternalUser", "Ban a user", <<Basic("long")>>, Basic("boolean"))
OrderList == Api("order.list", "Anonym", "", <<>>, ListType(Named("UserOrder", <<>>)))
Ping      == Api("ping", "Integrated", "", <<>>, Named("Audit", <<>>))
BoxGet    == Api("box.get", "User", "", <<>>, Named("Box", <<>>))

MCSchemas == {<<UserGet, OrderList, UserBan, Ping>>, <<UserGet, BoxGet>>}
MCDocument == {<<UserGet, OrderList, UserBan, Ping>>}
MCQueries == {"", "  ", " user", "List", "audit"}
MCScopes == {"all", "client", "backend", "integrated"}

\* No query and no scope event: only load, expand, collapse and select.
MCNoEvents == {}

=============================================================================
