CONSTANTS
    Schemas <- GrowingSchemas
    MaxDepth = 8
SPECIFICATION Spec
CHECK_DEADLOCK FALSE
PROPERTIES
    LoadTerminates
