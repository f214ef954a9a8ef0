\* help.rs as configured
CONSTANTS
    MaxFirst = 19
    PerTx = 5
    ChunkTxs = 5
    MaxBuyers = 70
SPECIFICATION PackSpec
INVARIANT EveryLateBundleTipped
\* The loops end
CHECK_DEADLOCK FALSE
