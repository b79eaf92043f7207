SPECIFICATION Spec
CONSTANTS
    Documents = {d1, d2}
    NoDocument = NoDocument
    Workers = {w1}
    Concurrency = 2
    Requests = {}
    MaxAttempts = 3
    Answers = {"valid", "ERROR"}
    Faults = {"dbError"}
    MaxFaults = 1
PROPERTY NoAttemptAbandoned
