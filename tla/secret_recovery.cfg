\* One client that also repairs lists, from a secret that may predate key binding.
SPECIFICATION Spec
CONSTANTS
    alice = alice bob = bob vault = vault
    ka = ka kb = kb kb2 = kb2 kv = kv kt = kt
    c1 = c1 c2 = c2 v1 = v1 v2 = v2
    NoKey = NoKey NoBlob = NoBlob NoSig = NoSig Keep = Keep
    Owner = alice OwnerKey = ka
    Names <- MCNames
    Keys <- MCKeys
    Values <- OneValue
    Clients <- OneClient
    Candidates <- RecoveryCandidates
    Publishable <- VaultDrifts
    TeamKeys <- NoTeam
    Ops <- AllOps
    MaxDek = 3
    MaxCounter = 4
    LegacyStart = TRUE
    TornReads = FALSE
    Forgeable <- ForgedGrants
    Delegated = {}
INVARIANTS
    HoldersAreWraps
    StaysManageable
    NotStranded
