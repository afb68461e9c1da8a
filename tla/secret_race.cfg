\* Two clients of one owner whose calls and record reads interleave.
SPECIFICATION Spec
CONSTANTS
    alice = alice bob = bob vault = vault
    ka = ka kb = kb kb2 = kb2 kv = kv kt = kt
    c1 = c1 c2 = c2 v1 = v1 v2 = v2
    NoKey = NoKey NoBlob = NoBlob NoSig = NoSig Keep = Keep
    Owner = alice OwnerKey = ka
    Names <- MCNames
    Keys <- MCKeys
    Values <- OneValue
    Clients <- TwoClients
    Candidates <- PlainCandidates
    Publishable <- FixedKeys
    TeamKeys <- NoTeam
    Ops <- AllOps
    MaxDek = 3
    MaxCounter = 3
    LegacyStart = FALSE
    TornReads = TRUE
    Forgeable <- ForgedGrants
    Delegated = {}
SYMMETRY Symmetry
INVARIANTS
    OwnerKeepsAccess
