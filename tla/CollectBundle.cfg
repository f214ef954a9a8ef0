CONSTANTS
    TxLimit = 328
    MaxTxs = 2
    Wallets = {w1, w2, w3}
    Balances = {0, 1, 5}
    Asked = {0, 2, 4, 7}
    All = All
    Rent = 1
    Guard = 4
    Tip = 2
SPECIFICATION BundleSpec
INVARIANTS TypeOK PaidExactly WorthTheTip BundleRight
PROPERTY ImplementsPayment
\* a call ends
CHECK_DEADLOCK FALSE
