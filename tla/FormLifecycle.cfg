\* One candidate with the own form and the minister's; two overlapping runs.
SPECIFICATION Spec
CONSTANTS
    c = c
    n = n
    Rows <- MCRows
    Kind <- MinisterForm
    Source = c
    Runs = {k1, k2}
    Holders = {h1}
    ExpiringCodes <- MailedCodesExpire
    MaxFaults = 1
SYMMETRY SlotSymmetry
INVARIANTS
    LinkedMailNeedsSubmission
    LinkedMailedMeansMailed
    OwnCodeIsKnown
PROPERTIES
    GivenUpOnlyAtTheEnd
    KeepsFormPromise
