SPECIFICATION Spec
CONSTANTS
    NumDocuments = 2
    Chips = {"active"}
    Texts = {"", "acme", " "}
    NoText = ""
    Blank = " "
    Hits <- MCHits
    PageSize = 1
    None = None
    MaxEvents = 3
INVARIANT
    ChipsAreKept
CHECK_DEADLOCK FALSE
