\* Two administrators' requests at once on a form and one to copy it to.
SPECIFICATION Spec
CONSTANTS
    f1 = f1
    f2 = f2
    None = None
    Forms <- MCForms
    Sizes <- MCSizes
    Requests = {r1, r2}
    MaxSections = 3
    MaxQuestions = 3
    MaxOrder = 3
    MaxMissed = 1
SYMMETRY Symmetry
INVARIANTS
    TypeOK
    SectionRulesHaveTargets
    QuestionRulesStayInForm
PROPERTIES
    ChecksSuffice
CHECK_DEADLOCK FALSE
