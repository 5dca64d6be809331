\* Two types of term for one role, a successor waiting, two administrators, two desks.
SPECIFICATION Spec
CONSTANTS
    h1 = h1
    h2 = h2
    d1 = d1
    d2 = d2
    Nobody = Nobody
    Admins <- MCAdmins
    Desks <- MCDesks
    Pairs = {1, 2}
    Texts = {1, 2}
    Days = {1, 2}
    MaxTerms = 3
    FirstTerms <- MCFirstTerms
    LastPhase = 4
    MaxChanges = 2
    Users = {u}
    Forms = {f}
    PairRole <- MCPairRole
    CandidateRole = "candidate"
    Lists = {{1}, {1, 2, 3}}
    MaxAttempts = 1
SYMMETRY SlotSymmetry
INVARIANTS
    OneOpenTerm
    SignaturesBoundedByConcurrency
    AdmittedHasSigned
PROPERTIES
    StartedIsFrozen
    DoneReopenedOnlyByStale
    CodesOpenOnce
CHECK_DEADLOCK FALSE
