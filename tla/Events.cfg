CONSTANTS
    Closer = closer
    Fibres = {f1, f2, closer}
    NoFibre = NoFibre
    Subscribers = {s1}
    MaxEnvelopes = 1
    MaxBytes = 2
    MaxSequence = 3
    Replayer = replayer
    Appenders = {f1, f2, replayer}
    Readers = {r1}
    MaxLag = 1
    MaxCuts = 1
SPECIFICATION Spec
SYMMETRY FibreSymmetry
INVARIANTS TypeOK ReentryIsRefused CloseReachesEveryone RetainedIsCharged  ReaderMissesNothing
CHECK_DEADLOCK FALSE
