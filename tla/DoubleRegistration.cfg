SPECIFICATION Spec
CONSTANTS
    r1 = r1
    r2 = r2
    o1 = o1
    o2 = o2
    i1 = i1
    e1 = e1
    e2 = e2
    NoApp = NoApp
    Requests <- MCRequests
    Orders <- MCOrders
    Identities <- MCIdentities
    Emails <- MCEmails
    Applications <- TwoOrders
    MaxPendings = 2
    Cooldown = 1
    TokenTtl = 0
    UnconfirmedAge = 0
    ConfirmedAge = 0
INVARIANT OneCandidatePerIdentity
