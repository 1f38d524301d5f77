\* What becomes of accepted inputs: two callers, one submission.
CONSTANTS
    Callers = {c1, c2}
    MaxSubmissions = 1
    MaxInputs = 2
    MaxTurns = 2
SPECIFICATION Spec
INVARIANTS
    CompletedMeansApplied
    AppliedInOrder
    QueuedBeforeApplied
