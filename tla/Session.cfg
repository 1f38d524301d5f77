\* Whose session, whose inputs, whose outcome: a predecessor and its successor,
\* a caller and the owner.
CONSTANTS
    Callers = {c1}
    MaxSubmissions = 2
    MaxInputs = 1
    MaxTurns = 2
SPECIFICATION Spec
INVARIANTS
    TypeOK
    OneAtATime
    GateDiscipline
    InputsStayWithTheirSubmission
    LatestIsJoinable
    SettledProgressIsOwn
    ClosedAfterTerminals
PROPERTIES
    
    ClosedIsFinal
    CompletionIsLastWord
