CONSTANTS
    Schemas <- MCSchemas
    MaxDepth = 8
SPECIFICATION Spec
\* The load is a constructor call: it returns, and nothing follows it.
CHECK_DEADLOCK FALSE
INVARIANTS
    TypeOK
    ClosureMatchesReference
    LoadOutcome
PROPERTIES
    LoadTerminates
