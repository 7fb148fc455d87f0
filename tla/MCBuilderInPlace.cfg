CONSTANTS
    Inputs <- MCInputs
    InPlaceArcs = 4
    BlockSize = 2
    GenBlockSize = 2
    mt19937 <- MCmt19937
    BeyondArray = {0, 1}
    MinAverageDegree = 1
    MaxSamples = 3
    Thread = {t1, t2}
SPECIFICATION TCSpec
INVARIANT GraphExact
