CONSTANTS
    Schemas <- BareSchemas
    MaxDepth = 4
SPECIFICATION Spec
\* The load is a constructor call: it returns, and nothing follows it.
CHECK_DEADLOCK FALSE
INVARIANTS
    ClosureMatchesReference
