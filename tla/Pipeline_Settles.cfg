SPECIFICATION Spec
CONSTANTS
    Documents = {d1}
    NoDocument = NoDocument
    Workers = {w1}
    Concurrency = 2
    Requests = {q1}
    MaxAttempts = 2
    Answers = {"valid", "ERROR"}
    Faults = {"crash", "dbError", "lostAnswer"}
    MaxFaults = 2
PROPERTIES
    EventuallySettled
