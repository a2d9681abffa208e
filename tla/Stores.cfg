SPECIFICATION StoresSpec
CONSTANTS
    \* Two overlapping installs and a rebuild of each file.
    Publishers = {p1, p2}
    MaxRebuilds = 1
    \* Any two settings, texts and paths of up to three items, one edit.
    MaxLength = 2
    MaxEdits = 1
    Unset = Unset
    \* Three builds, three launches, two ends of the server, two failing renames.
    MaxVersion = 3
    MaxProcess = 3
    MaxCrashes = 2
    MaxFaults = 2
    \* Every database of nine rows that has the conversation, under 81 schemas, and
    \* one write in between.
    Universe <- MCUniverse
    Schemas <- MCSchemas
    Root = "a"
    EditLimit = 1
    None = None
CHECK_DEADLOCK FALSE
INVARIANTS
    EnvironmentSurvives
PROPERTIES
    PublicationIsAtomic
    WebAppIsWhole
    DeletionMeetsItsPlan
