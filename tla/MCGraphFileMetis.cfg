CONSTANTS
    Builds <- MCBuilds
    Documents <- MCDocuments
    InsertedWeight = 99
    MaxRuns = 3
    NoFile = NoFile
    NoGraph = NoGraph
    Unread = Unread
    BlankAtEnd = FALSE
SPECIFICATION OwnSpec
INVARIANT FormatsAgree
