CONSTANTS
    NumNodes = 4
    Deltas = {1, 2, 3}
    kDistInf = 40
    kMaxBin = 50
    kBinSizeThreshold = 3
    Thread = {t1, t2}
    Graphs <- MCGraphs
SPECIFICATION FairSpec
INVARIANTS PriorityOrder NothingForgotten VerifierAccepts
PROPERTY Termination
