CONSTANTS
    NumNodes = 7
    BitsPerWord = 2
    ChunkSize = 2
    LocalSize = 1
    Alphas = {1, 4, 8}
    Betas = {4}
    Thread = {t1, t2}
    Graphs <- MCGraphs
SPECIFICATION FairSpec
INVARIANTS FrontierIsLevel NoBitLost StaleFrontHarmless VerifierAccepts
PROPERTIES FollowsQueueProtocol RefinesLevelBFS Termination
