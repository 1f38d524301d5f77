\* Both isolation levels: a serial database against the memory store, and the
\* guarded transitions under READ COMMITTED.
CONSTANTS
    Clients = {c1, c2}
    Prompts = {p1, p2}
    Keyed = {p1}
    Requests = {q1}
    Answers = {yes, no}
    NoPrompt = NoPrompt
    MaxSubmissions = 2
    MaxAsks = 2
SPECIFICATION Spec
INVARIANTS
    TypeOK
    ExecutionIsOwn
    AnswersAreFirstWins
    
PROPERTIES
    SerialImplementsMemory
    ClaimEndsWithItsFinish
    HistoryNeverRegresses
CHECK_DEADLOCK FALSE
