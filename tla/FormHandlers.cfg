\* Two handlers at once on the forms of one candidate, and the fair cron.
SPECIFICATION FairSpec
CONSTANTS
    c = c
    n = n
    Rows <- MCRows
    Kind <- RefereeForm
    Source = c
    Runs = {k1}
    Holders = {h1, h2}
    ExpiringCodes <- NoCodeExpires
    MaxFaults = 1
PROPERTIES
    SubmissionUndoneOnlyByStale
    OwnFormIsHandled
    LinkedFormIsHandled
