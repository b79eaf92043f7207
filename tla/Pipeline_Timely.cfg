SPECIFICATION Spec
CONSTANTS
    Documents = {d1, d2}
    NoDocument = NoDocument
    Workers = {w1, w2}
    Concurrency = 1
    Requests = {q1}
    MaxAttempts = 2
    Answers = {"valid", "invalid", "ERROR"}
    Faults = {"crash", "dbError"}
    MaxFaults = 1
SYMMETRY Symmetry
INVARIANTS
    OneAttemptAtATime
    AttemptsWithinBudget
    AttemptOwnsRow
    AttemptsInOrder
    OneErrorIsMended
    HistoryKeepsUp
PROPERTIES
    ImplementsLifecycle
    OutcomeIsFinal
