\* Whose progress an interrupted outcome reports.
CONSTANTS
    Callers = {c1}
    MaxSubmissions = 2
    MaxInputs = 0
    MaxTurns = 2
SPECIFICATION OutcomeSpec
INVARIANT InterruptedOutcomeIsOwn
