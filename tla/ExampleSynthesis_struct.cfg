CONSTANTS
    Schemas <- StructSchemas
    Clock <- MCClock
    MaxDepth = 12
SPECIFICATION SynthSpec
CHECK_DEADLOCK FALSE
INVARIANTS
    StructExampleHasFields
