CONSTANTS
    NumNodes = 5
    BitsPerWord = 3
    LocalSize = 1
    Runs <- MCRuns
    Thread = {t1, t2}
    Graphs <- MCGraphs
    StartVertices <- Drawn
SPECIFICATION FairSpec
INVARIANTS PathsExact VerifierAccepts
PROPERTY Termination
