CONSTANTS
    NumNodes = 5
    BitsPerWord = 3
    LocalSize = 1
    Runs <- OneSource
    Thread = {t1, t2}
    Graphs <- MCGraphs
    StartVertices <- Sink
SPECIFICATION Spec
INVARIANT NormalizedRange
