\* Two wallets, one transfer, two rounds, two joins at once, one restart.
SPECIFICATION JoinSpec
CONSTANTS
    w1 = w1
    w2 = w2
    t1 = t1
    t2 = t2
    Wallets = {w1, w2}
    NoWallet = NoWallet
    Rounds = {r1, r2}
    Transfers = {t1}
    Payer <- MCPayer
    Exact = {t1}
    Posts <- AnyTransfer
    Requests = {h1, h2}
    MaxByHand = 2
    MaxRestarts = 1
INVARIANTS
    BoughtOnce
PROPERTIES
    PaymentTakesSeat
    ShowRoundStarts
CHECK_DEADLOCK FALSE
