CONSTANTS
    Queries <- MCQueries
    Structs <- MCStructs
    Scopes <- MCScopes
    Schemas <- MCSchemas
    ErrorDelivered = TRUE
    NoApiValue = NoApiValue
    NoApi <- NoApiValue
SPECIFICATION Spec
INVARIANTS
    TypeOK
    SearchShowsScopeAndQuery
    ExpandedGroupsListed
    ReferencedStructsFound
