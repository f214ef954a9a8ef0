CONSTANTS
    MaxRetries = 15
    FinalRetries = 10
    MayLandFailed = FALSE
SPECIFICATION Spec
INVARIANTS TypeOK OkMeans
PROPERTY ImplementsSubmission
\* submit_bundle returns
CHECK_DEADLOCK FALSE
