\* Two tabs of a wallet, one tab with two faults, or two wallets at once.
SPECIFICATION FairSpec
CONSTANTS
    w1 = w1 w2 = w2 t1 = t1 t2 = t2
    Nobody = Nobody None = None Lost = Lost
    Wallets <- MCWallets
    Tabs <- MCTabs
    Cap = 1
    Scenarios <- Mixed
INVARIANTS
    RootIsHandedOver
    DoneIsDone
    SaltsRemembered
    FreshPhraseRecovers
PROPERTIES
    SetupFinishes
