SPECIFICATION Spec
CONSTANTS
    MaxId <- MCMaxId
    MaxSecret <- MCMaxSecret
INVARIANT StatusTwoIsReal
CHECK_DEADLOCK FALSE
