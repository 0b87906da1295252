CONSTANTS
    Queries <- MCNoEvents
    Scopes <- MCNoEvents
    Structs <- MCStructs
    Schemas <- MCDocument
    ErrorDelivered = FALSE
    NoApiValue = NoApiValue
    NoApi <- NoApiValue
SPECIFICATION Spec
INVARIANTS
    SelectionInExpandedGroup
