\* Two wallets, two requests and one payment left of each leg.
SPECIFICATION Spec
CONSTANTS
    w1 = w1 w2 = w2 r1 = r1 r2 = r2
    Nobody = Nobody
    Wallets <- TwoWallets
    Requests <- TwoRequests
    Cap <- OneEach
    StaleClaim = 2
    ReceiptTimeout = 1
    QueueDelay = 1
    MaxFaults = 1
SYMMETRY Symmetry
INVARIANTS
    PaidOncePerClaim
    CapHolds
