\* The nightly run reads the answers as they are stored.
SPECIFICATION Spec
CONSTANTS
    ann = ann
    ben = ben
    cleo = cleo
    i = i
    j = j
    q = q
    low = low
    high = high
    NoUser = NoUser
    NoAnswer = NoAnswer
    Candidates <- MCCandidates
    Interviewers <- MCInterviewers
    Areas = {r1}
    h1 = h1
    h2 = h2
    dan = dan
    Begun = {dan}
    Handlers <- MCHandlers
    Marital <- MCMarital
    Age <- MCAge
    Statuses <- MCStatuses
    Questions = {q}
    Answer <- MCAnswer
    OptionScores <- MCOptionScores
    Cutoff = 5
    Notes = {0}
    Dates = {0, 1}
    LastDay = 2
    MaxRequests = 1
PROPERTIES
    CronApprovesBelowCutoff
CHECK_DEADLOCK FALSE
