CONSTANTS
    Schemas <- MCSchemas
    Clock <- MCClock
    MaxDepth = 12
SPECIFICATION SynthSpec
\* A load that fails has nothing to serve: the page stops there.
CHECK_DEADLOCK FALSE
INVARIANTS
    ExampleConforms
    TitleAbbreviatesUnions
