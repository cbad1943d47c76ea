SPECIFICATION Spec
CONSTANTS
    Kinds <- AllKinds
    MaxLength = 3
INVARIANT RelayedInOrder
INVARIANT ToolsComplete
INVARIANT ContentComplete
\* A stream that is complete or broken off is over.
CHECK_DEADLOCK FALSE
