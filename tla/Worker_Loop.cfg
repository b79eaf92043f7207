SPECIFICATION Spec
CONSTANTS
    Documents = {d1, d2}
    NoDocument = NoDocument
    Concurrency = 2
    MaxAttempts = 2
    MaxStops = 2
INVARIANTS
    TypeOK
    SlotsRestBetweenTicks
    HeldBySlots
    StopStrandsNothing
PROPERTIES
    NoNewWork
    EveryDocumentSettles
    ExpiredLeasesAreTakenUp
CHECK_DEADLOCK FALSE
