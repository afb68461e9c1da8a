\* One client, and a write delegate that edits and rolls back records.
SPECIFICATION Spec
CONSTANTS
    alice = alice bob = bob vault = vault
    ka = ka kb = kb kb2 = kb2 kv = kv kt = kt
    c1 = c1 c2 = c2 v1 = v1 v2 = v2
    NoKey = NoKey NoBlob = NoBlob NoSig = NoSig Keep = Keep
    Owner = alice OwnerKey = ka
    Names <- MCNames
    Keys <- MCKeys
    Values <- OneValue
    Clients <- OneClient
    Candidates <- PlainCandidates
    Publishable <- BobDrifts
    TeamKeys <- NoTeam
    Ops <- DelegateOps
    MaxDek = 2
    MaxCounter = 3
    LegacyStart = FALSE
    TornReads = FALSE
    Forgeable <- ForgedGrants
    Delegated = {"signed"}
INVARIANTS
    SealedOnlyToApproved
    SignedRecovery
