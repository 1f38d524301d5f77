\* One submission that may ask, two clients, one crash, one interruption.
CONSTANTS
    c1 = c1
    c2 = c2
    p1 = p1
    no = no
    Clients = {c1, c2}
    Prompts = {p1}
    Keyed = {p1}
    Requests = {1}
    Answers = {no}
    Refusal = no
    NoPrompt = NoPrompt
    MaxSubmissions = 1
    MaxInputs = 1
    MaxInterrupts = 1
    MaxFaults = 1
    Asking = {1}
SPECIFICATION Spec
SYMMETRY ClientSymmetry
INVARIANTS TypeOK TerminalAfterProjection  
PROPERTIES  FollowUpsAreApplied 
CHECK_DEADLOCK FALSE
