SPECIFICATION HistorySpec
CONSTANTS
    \* Two agents and two removals, three conversations in two directories.
    Agents = {a1, a2}
    Removals = {r1, r2}
    Conversations = {Whole, Part, Other}
    Parent <- ParentOf
    DirectoryOf <- PlaceOf
    Directories = {Here, There}
    Whole = Whole
    Part = Part
    Other = Other
    Here = Here
    There = There
    \* Two paths and three inodes that are used again, four databases in all.
    Paths = {p1, p2}
    Inodes = {i1, i2, i3}
    DatabaseLimit = 4
    GenerationLimit = 4
    \* The rows of conversations do not depend on each other: one conversation.
    Ids = {s1}
    Times = {1, 2, 3}
    None = None
SYMMETRY ClaimsSymmetry
CHECK_DEADLOCK FALSE
INVARIANTS
    NoSharedConversation
    MarkersAreKept
PROPERTIES
    OwnedConversationsSurvive
    UnidentifiedConversationsSurvive
    HistoryIsOfTheFile
    LineageIsKept
