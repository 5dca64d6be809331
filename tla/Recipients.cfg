\* Two runs of the cron, two administrators, one row that waits for a minister.
SPECIFICATION FairSpec
CONSTANTS
    qe = qe
    qf = qf
    x1 = x1
    d1 = d1
    None = None
    NoContact = NoContact
    Requests = {1, 2}
    Processes = {1, 2}
    MaxForms = 3
    Questions = {qe, qf}
    FirstKind <- MCKinds
    Replied = {qf}
    FieldNames = {1, 2}
    Acronyms = {1, 2}
    MinisterNames = {1, 2}
    Contacts = {d1}
    Files <- MCFiles
    MaxEdits = 2
    Runs = {1, 2}
    Rows = {x1}
    FormOf <- MCFormOf
    Asked <- MCAsked
    Named <- MCNamed
    FirstForms <- MCForms
    FirstAnswered = {1}
    FirstFile <- MCFirst
    PageSize = 1
    MaxFaults = 1
    MaxOverlaps = 1
INVARIANTS
    TypeOK
    OneMinisterPerField
    RecipientQuestionFits
    AloneFindsCurrent
PROPERTIES
    MinisterIsMailed
    ReplacedBySuccessor
