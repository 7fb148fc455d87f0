CONSTANTS
    Inputs <- MCInputs
    InPlaceArcs = 6
    BlockSize = 2
    GenBlockSize = 2
    mt19937 <- MCmt19937
    BeyondArray = {0}
    MinAverageDegree = 1
    MaxSamples = 3
    Thread = {t1, t2, t3}
SYMMETRY Symmetry
SPECIFICATION TCSpec
INVARIANTS SeedsDecide SlotsOnce GraphExact IteratorInList VerifierAccepts
