\* What the indexer finishes although the RPC fails and the process restarts.
SPECIFICATION FairSpec
CONSTANTS
    alice = alice bob = bob d1 = d1 d2 = d2
    Unset = Unset
    Accounts <- TwoAccounts
    Amounts <- OneUnit
    DepositTxs <- OneDeposit
    DepositOf <- AliceOne
    Confirmations = 1
    Chunk = 2
    StartBlock = 1
    TicketTTL = 0
    MaxTickets = 1
    MaxHeight = 3
    MaxTime = 1
    MaxCrashes = 1
PROPERTIES
    DepositsArrive
    TicketsClose
