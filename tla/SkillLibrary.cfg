\* Two tasks, of one server or not, two commits, two paths, two slugs.
SPECIFICATION LibrarySpec
CONSTANTS
    Tasks = {t1, t2}
    Commits = {c1, c2}
    Slugs = {a, b}
    Paths <- MCPaths
    MaxRepositories = 1
    MaxSyncs = 2
    MaxCustom = 1
    None = None
SYMMETRY Symmetry
CHECK_DEADLOCK FALSE
INVARIANTS
    LibraryIsConsistent
PROPERTIES
    SyncIsExact
