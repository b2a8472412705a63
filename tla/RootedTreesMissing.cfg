SPECIFICATION TreesSpec
CONSTANTS
    MaxOrder = 8
    MaxNodes = 8
CHECK_DEADLOCK FALSE
INVARIANT ListsEveryTree
