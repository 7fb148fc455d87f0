CONSTANTS
    NumNodes = 4
    ChunkSize = 1
    NeighborRounds = {0, 2}
    Thread = {t1, t2}
    Graphs <- MCGraphs
SPECIFICATION FairSpec
INVARIANTS CompressFlattens NoEdgeSkipped VerifierAccepts
PROPERTIES LabelsDescend RefinesComponentMerging Termination
