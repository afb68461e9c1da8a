\* The parts of the extension and the scenes of the MCP server, each with what can run
\* beside it.
SPECIFICATION ReadersSpec
CONSTANTS
    s1 = s1 s2 = s2 h1 = h1 h2 = h2 p1 = p1 t1 = t1 t2 = t2 f1 = f1 f2 = f2
    i1 = i1 i2 = i2 c1 = c1 c2 = c2
    NoHost = NoHost NoSecret = NoSecret Own = Own
    Secrets = {s1, s2}
    Hosts = {h1, h2}
    Presses = {p1}
    SiteAtFirst <- MCSites
    MaxUnlocks = 2
    MaxNonces = 2
    Tabs = {t1, t2}
    PageAtFirst <- MCPages
    Slots = {f1, f2}
    IdleTimer = IdleTimer
    MaxInbox = 2
    Captured = {i1, i2}
    Calls = {c1, c2}
    MaxClaims = 2
    Plays <- MCPlays
    x = x y = y z = z px = px py = py pz = pz k = k l = l m1 = m1 m2 = m2
    NoSeed = NoSeed Fallback = Fallback
    Agents <- MCAgents
    Servers = {m1, m2}
    Contents <- MCContents
    FirstContent <- ApiKey
    Asked = {1, 2}
    Limit <- MCLimit
    RedactionLimit = 2
    Capacity = 2
    Minute = 1
    Scenes <- MCScenes
    Resting <- Still
    Nobody <- Silent
INVARIANTS
    LocksOnTime
    OverUnlessLoose
    MovedNeedsConsent
    CodeGoesHome
    FieldsMatchPages
    ButtonsMatchVault
    CapturesConserved
    BudgetsHold
    SentWhereAllowed
    KeysWiped
CHECK_DEADLOCK FALSE
