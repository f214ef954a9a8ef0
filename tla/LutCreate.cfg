\* The constants of lut.rs; lists of one chunk, two, three and too many.
CONSTANTS
    Sizes = {25, 26, 60, 300}
    Take = 240
    ChunkSize = 25
    MaxTries = 10
SPECIFICATION CreateSpec
INVARIANTS CreateTypeOK TableIsPrefix OkMeansFull
PROPERTY EndsUnlessCreationAges
\* create_lut returns
CHECK_DEADLOCK FALSE
