CONSTANTS
    Calls = {1, 2, 3}
    NameOf <- MCNameOf
    Limit <- MCLimit
    Total = 2
    Containers = {2}
    HostMax = 1
    MaxNested = 1
SPECIFICATION Spec
INVARIANTS OneTerminalEvent QuestionsAreAnswerable
PROPERTY EveryBatchEnds
CHECK_DEADLOCK FALSE
