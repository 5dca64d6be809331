\* The expired code of a referee's form is replaced by one nobody is sent.
SPECIFICATION Spec
CONSTANTS
    c = c
    n = n
    Rows <- MCRows
    Kind <- RefereeForm
    Source = c
    Runs = {k1}
    Holders = {h1}
    ExpiringCodes <- MailedCodesExpire
    MaxFaults = 0
INVARIANTS
    EveryCodeIsKnown
