SPECIFICATION FormSpec
CONSTANTS
    Uploads = {u1, u2, u3}
    Contents = {c1, c2}
    NoUpload = NoUpload
    MaxFaults = 1
    FormUploads = {u1, u2}
    Pdfs = {c1}
    NoFile = NoFile
    NoOutcome = NoOutcome
    MaxChoices = 2
INVARIANTS
    EveryDocumentHasItsFile
    NoOrphanFiles
    BannerIsTrue
    MessageIsTrue
PROPERTIES
    ActsAtomically
    SubmissionsEnd
CHECK_DEADLOCK FALSE
