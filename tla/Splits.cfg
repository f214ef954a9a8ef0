\* 24 lamports a wallet allow a deviation of 1, which the index multiplies; at
\* sixteen wallets max_this_split cuts it off.
CONSTANTS
    InitSol = 300
    InitTokens = 107
    DevBuys = {0, 30}
    Amounts = {0, 1, 5, 400}
    Shares = {4, 9, 70}
    Percent = 5
SPECIFICATION SplitSpec
INVARIANTS SplitTypeOK SumExact LeavesEnough AverageWithinShare
\* the splits are returned
CHECK_DEADLOCK FALSE
