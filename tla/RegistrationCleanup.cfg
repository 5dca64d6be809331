SPECIFICATION FairSpec
CONSTANTS
    r1 = r1
    r2 = r2
    o1 = o1
    o2 = o2
    i1 = i1
    e1 = e1
    e2 = e2
    NoApp = NoApp
    Requests <- MCRequests
    Orders <- MCOrders
    Identities <- MCIdentities
    Emails <- MCEmails
    Applications <- OneOrder
    MaxPendings = 1
    Cooldown = 0
    TokenTtl = 0
    UnconfirmedAge = 1
    ConfirmedAge = 0
PROPERTIES RowsAreForgotten
