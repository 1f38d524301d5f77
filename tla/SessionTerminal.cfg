\* The published terminal contract, which the code does not keep.
CONSTANTS
    Callers = {c1}
    MaxSubmissions = 2
    MaxInputs = 1
    MaxTurns = 1
SPECIFICATION Spec
PROPERTY NothingFollowsTerminal
