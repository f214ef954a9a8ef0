\* Two launches of two wallets each, and a token for one of them.
CONSTANTS
    Jobs = {a, b}
    Wallets = 2
    NumMints = 1
    MaxLate = 1
SPECIFICATION Spec
INVARIANTS TypeOK NoTokenLost
PROPERTY EndsOrSpins
\* The warm-up ends
CHECK_DEADLOCK FALSE
