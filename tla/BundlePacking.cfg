\* The constants of config.rs and help.rs, and lists of up to 70 buyers.
CONSTANTS
    MaxFirst = 19
    PerTx = 5
    ChunkTxs = 5
    MaxBuyers = 70
SPECIFICATION PackSpec
INVARIANTS PackTypeOK NoBuyerLost OncePerGroup SizesAndTips DelayedIffRest
\* The loops end
CHECK_DEADLOCK FALSE
