SPECIFICATION Spec
CONSTANTS
    Kinds <- ChatAndTool
    MaxLength = 3
INVARIANT ContentNeverLost
\* A stream that is complete or broken off is over.
CHECK_DEADLOCK FALSE
