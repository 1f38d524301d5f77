\* Two claimers under READ COMMITTED, against claim's own comment.
CONSTANTS
    Clients = {c1, c2}
    Prompts = {p1, p2}
    Keyed = {p1}
    Requests = {q1}
    Answers = {yes, no}
    NoPrompt = NoPrompt
    MaxSubmissions = 2
    MaxAsks = 2
SPECIFICATION Spec
INVARIANT NoSubmissionGrantedTwice
CHECK_DEADLOCK FALSE
