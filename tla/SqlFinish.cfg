\* What a false finish means, against the store's contract.
CONSTANTS
    Clients = {c1, c2}
    Prompts = {p1, p2}
    Keyed = {p1}
    Requests = {q1}
    Answers = {yes, no}
    NoPrompt = NoPrompt
    MaxSubmissions = 2
    MaxAsks = 2
SPECIFICATION Spec
PROPERTY FalseMeansSuperseded
CHECK_DEADLOCK FALSE
