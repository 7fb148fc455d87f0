CONSTANTS
    NumNodes = 7
    Deltas = {100}
    kDistInf = 1000
    kMaxBin = 1000
    kBinSizeThreshold = 1000
    Thread = {t1, t2}
    Graphs <- DetourGraph
SPECIFICATION Spec
INVARIANT FrontierFits
