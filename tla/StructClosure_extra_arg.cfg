CONSTANTS
    Schemas <- ExtraArgSchemas
    MaxDepth = 8
SPECIFICATION Spec
CHECK_DEADLOCK FALSE
INVARIANTS
    BoundArityMatches
