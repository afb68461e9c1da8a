\* Two wallets, two requests and one payment left of each leg.
SPECIFICATION FairSpec
CONSTANTS
    w1 = w1 w2 = w2 r1 = r1 r2 = r2
    Nobody = Nobody
    Wallets <- OneWallet
    Requests <- TwoRequests
    Cap <- TwoEach
    StaleClaim = 1
    ReceiptTimeout = 1
    QueueDelay = 0
    MaxFaults = 1
PROPERTIES
    NotWedged
