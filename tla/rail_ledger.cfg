\* Deposits, transfers, tickets, reorganisations, RPC failures and one restart.
SPECIFICATION Spec
CONSTANTS
    alice = alice bob = bob d1 = d1 d2 = d2
    Unset = Unset
    Accounts <- TwoAccounts
    Amounts <- OneUnit
    DepositTxs <- TwoDeposits
    DepositOf <- AliceThenBob
    Confirmations = 1
    Chunk = 2
    StartBlock = 1
    TicketTTL = 0
    MaxTickets = 2
    MaxHeight = 4
    MaxTime = 1
    MaxCrashes = 1
INVARIANTS
    Accounted
    NothingSkipped
    AppliedIsFinal
PROPERTIES
    KeepsBank
