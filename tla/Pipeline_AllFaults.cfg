SPECIFICATION Spec
CONSTANTS
    Documents = {d1}
    NoDocument = NoDocument
    Workers = {w1}
    Concurrency = 2
    Requests = {q1}
    MaxAttempts = 2
    Answers = {"valid", "invalid", "ERROR"}
    Faults = {"crash", "dbError", "lostAnswer", "slowAttempt", "racingRetry", "racingSweep"}
    MaxFaults = 1
CONSTRAINT ShortHistory
INVARIANTS
    TypeOK
    SeenByQueueOrReaper
    ResultMatchesStatus
    OutcomeIsInHistory
