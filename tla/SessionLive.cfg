\* Liveness, over runs of two turns.
CONSTANTS
    Callers = {c1}
    MaxSubmissions = 1
    MaxInputs = 1
    MaxTurns = 2
SPECIFICATION Spec
PROPERTIES
    EverySubmissionSettles
    
    CloseCompletes
