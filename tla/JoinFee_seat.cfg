\* One round, two wallets that each post what they paid, two joins at once: must
\* violate PayerHoldsSeat.
SPECIFICATION JoinSpec
CONSTANTS
    w1 = w1
    w2 = w2
    t1 = t1
    t2 = t2
    Wallets = {w1, w2}
    NoWallet = NoWallet
    Rounds = {r1}
    Transfers = {t1, t2}
    Payer <- MCPayer
    Exact = {t1, t2}
    Posts <- OwnTransfer
    Requests = {h1, h2}
    MaxByHand = 0
    MaxRestarts = 0
INVARIANT PayerHoldsSeat
CHECK_DEADLOCK FALSE
