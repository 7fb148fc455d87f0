CONSTANTS
    NumNodes = 4
    Thread = {t1, t2}
    Graphs <- MCGraphs
SPECIFICATION FairSpec
INVARIANTS LabelsSound LostHookRetried PassStartsFlat VerifierAccepts
PROPERTY Termination
