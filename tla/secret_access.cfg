\* One client over a name whose key drifts, and a delegate that hides holders.
SPECIFICATION Spec
CONSTANTS
    alice = alice bob = bob vault = vault
    ka = ka kb = kb kb2 = kb2 kv = kv kt = kt
    c1 = c1 c2 = c2 v1 = v1 v2 = v2
    NoKey = NoKey NoBlob = NoBlob NoSig = NoSig Keep = Keep
    Owner = alice OwnerKey = ka
    Names <- MCNames
    Keys <- MCKeys
    Values <- OneValue
    Clients <- OneClient
    Candidates <- TeamCandidates
    Publishable <- BobDrifts
    TeamKeys <- BobTeam
    Ops <- BasicOps
    MaxDek = 3
    MaxCounter = 3
    LegacyStart = FALSE
    TornReads = FALSE
    Forgeable <- ForgedGrants
    Delegated = {"holders"}
INVARIANTS
    ReadersAreListed
