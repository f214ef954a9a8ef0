\* A launch of the developer and three wallets, two of them in the first
\* bundle, with percent for basis points.
CONSTANTS
    Buyers = 3
    WithDelay = FALSE
    FirstBuyers = 1
    Balances = {4, 60, 400}
    Reserve = 10
    DevFixed = 29
    Buffer = 2
    MinBuffers = 10
    FirstSlip = 5
    LateSlip = 8
    BasisPoints = 100
    SimSol = 900
    SimTokens = 310
    Word = 4096
    FeeBp = 1
    Overhead = 5
    Others = {1, 60}
SPECIFICATION Spec
INVARIANTS TypeOK OwnBuysExecute ReserveKept
\* everything has been bought, or nothing more can be
CHECK_DEADLOCK FALSE
