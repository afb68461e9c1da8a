\* No fault, but a send may wait for its nonce longer than its claim lives.
SPECIFICATION Spec
CONSTANTS
    w1 = w1 w2 = w2 r1 = r1 r2 = r2
    Nobody = Nobody
    Wallets <- OneWallet
    Requests <- TwoRequests
    Cap <- TwoEach
    StaleClaim = 1
    ReceiptTimeout = 1
    QueueDelay = 2
    MaxFaults = 0
INVARIANTS
    PaidOnce
