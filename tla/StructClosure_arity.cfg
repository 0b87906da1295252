CONSTANTS
    Schemas <- RawGenericSchemas
    MaxDepth = 8
SPECIFICATION Spec
CHECK_DEADLOCK FALSE
PROPERTIES
    LoadCompletes
