\* Two buyers in the first bundle, two transactions of two buyers in a late
\* one: six buyers make two late bundles, with or without a delay.
CONSTANTS
    MaxFirst = 1
    PerTx = 2
    ChunkTxs = 2
    MaxBuyers = 6
SPECIFICATION Spec
INVARIANTS TypeOK LateAfterLaunch AnnouncedMeansBought
PROPERTY TasksComplete
\* A launch is over once it has ended
CHECK_DEADLOCK FALSE
