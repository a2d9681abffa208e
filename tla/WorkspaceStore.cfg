SPECIFICATION StoreSpec
CONSTANTS
    Sessions = {s1, s2, s3}
    Workspaces = {w1, w2, w3}
    NoSession = NoSession
    NoWorkspace = NoWorkspace
    NoCommit = NoCommit
    Free = Free
    MaxPosition = 2
SYMMETRY StoreSymmetry
INVARIANTS
    ConstraintsNeverRefuse
PROPERTIES
    ImplementsLists
    RemovalActivatesNext
