SPECIFICATION Spec
CONSTANTS
    Documents = {d1}
    NoDocument = NoDocument
    Workers = {w1}
    Concurrency = 1
    Requests = {}
    MaxAttempts = 3
    Answers = {"valid", "ERROR"}
    Faults = {"crash"}
    MaxFaults = 1
INVARIANT FailedOnlyWhenExhausted
