\* Transactions hold the instructions of one wallet or two; with the larger
\* sizes a wallet's tax moves into the second bundle when the first is tipped.
CONSTANTS
    w1 = w1
    w2 = w2
    w3 = w3
    Keys <- MCKeys
    Amounts = {0, 1, 4}
    MinSell = 2
    MinTotal = 8
    Sizes <- MCSizes
    Cap = 11
    FeeSize = 2
    TipSize = 3
    PerBundle = 2
SPECIFICATION Spec
INVARIANTS TypeOK SaleAndTaxTogether AllOkMeansSold NothingStranded BundlesTaken
\* a request ends
CHECK_DEADLOCK FALSE
