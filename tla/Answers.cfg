\* Two concurrent requests on one form of three questions.  A submitted form with no
\* request in progress takes no further step.
SPECIFICATION Spec
CONSTANTS
    a = a
    b = b
    c = c
    s1 = s1
    s2 = s2
    NoQuestion = NoQuestion
    Null = Null
    Questions <- MCQuestions
    Sections <- MCSections
    Values <- MCValues
    Forms <- MCForms
    Handlers = {h1, h2}
    MaxAnswers = 4
SYMMETRY SlotSymmetry
INVARIANTS
    FlagsFollowAnswers
    RowsBoundedByConcurrency
    SubmittedIsComplete
PROPERTIES
    WritesAsFlow
CHECK_DEADLOCK FALSE
