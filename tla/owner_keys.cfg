\* Team keys of two members, two guardian sets, the index of two labels; and the dashboard of
\* two wallets, of which one holds both names.
SPECIFICATION OwnersSpec
CONSTANTS
    m1 = m1 m2 = m2 r1 = r1 r2 = r2 c1 = c1 c2 = c2 g1 = g1 g2 = g2 g3 = g3 l1 = l1 l2 = l2
    Members = {m1, m2}
    ResolverOf <- MCResolvers
    Parent = r1
    TeamClients = {c1, c2}
    MaxVersion = 1
    Unset = Unset
    Guardians = {g1, g2, g3}
    MaxSets = 2
    Chosen <- MCChosen
    Threshold <- MCThreshold
    XOf <- MCX
    MaxDrifts = 1
    Labels = {l1, l2}
    Apart = {l2}
    IndexClients = {c1, c2}
    Parts = {"teams", "guardians", "index"}
    wa = wa wb = wb na = na nb = nb fa = fa fb = fb qa = qa qb = qb
    NoWallet = NoWallet NoName = NoName NoSigner = NoSigner NoPayee = NoPayee
    Wallets = {wa, wb}
    Names = {na, nb}
    Reverse <- MCReverse
    Remembered <- MCRemembered
    Registered <- MCRegistered
    MaxConnects = 2
    MaxAdoptions = 1
    MaxFlows = 1
    MaxMoves = 1
    Signers = {wa, wb}
    Callers = {c1, c2}
    MaxKeys = 2
    Visits <- MCVisits
    Forms = {fa, fb}
    Payees = {qa, qb}
    MaxTyped = 3
    MaxPayments = 2
    pa = pa pb = pb ea = ea eb = eb va = va vb = vb sa = sa sb = sb
    Providers = {pa, pb}
    Errands = {ea, eb}
    TicketLife = 1
    MaxMinutes = 2
    MaxIssued = 2
    Viewers = {va, vb}
    MaxViews = 2
    MaxReplaced = 2
    MaxKeyLocks = 1
    Grantees = {na, nb}
    NoGrantee = NoName
    Moving = {na}
    Grantings = {sa, sb}
    MaxNamed = 4
    MaxPublished = 2
    Targets = {l1, l2}
    NoTarget = NoName
    Taken = {l1}
    Values = {qa}
    NoValue = NoPayee
    Details = {pa, pb}
    FirstDetail = pa
    Storings = {sa, sb}
    MaxFilled = 3
    MaxOpened = 2
INVARIANTS
    TeamKept
    QuorumRecovers
    IndexMatches
    WorkspaceSettles
    OneSession
    SeedsOfThisSession
    PaymentsRecorded
    TicketsKept
    DrawerActsAsShown
CHECK_DEADLOCK FALSE
