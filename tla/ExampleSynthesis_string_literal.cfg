CONSTANTS
    Schemas <- StringLiteralSchemas
    Clock <- MCClock
    MaxDepth = 12
SPECIFICATION SynthSpec
CHECK_DEADLOCK FALSE
INVARIANTS
    LiteralOverridesSynthesis
