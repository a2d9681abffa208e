SPECIFICATION AgentSpec
CONSTANTS
    \* Three events, room for one message less everywhere.  No property looks at
    \* what a hook's event is; the plugin has one that selects and one that does not.
    Ids = {"a", "b", "name of a"}
    Resolves <- MCResolves
    HookEvents = {"Stop"}
    PluginEvents = {"session.created", "session.idle"}
    PluginLimit = 2
    ConnectionLimit = 2
    QueueCapacity = 1
    MaxEvents = 3
    \* A new conversation beside a resumed one, and two faults.
    Runtimes = {"a", "b"}
    Names = {"status busy", "permission.asked", "session.idle"}
    EventLimit = 4
    FaultLimit = 2
    \* Three requests, two images in the directory, two paste commands each.
    Pastes = {r1, r2, r3}
    Ways = {"terminal", "clipboard"}
    DirectoryLimit = 2
    Tries = 2
    \* Two requests, one image at a time, two starts and ends of Pi's session.
    PiPastes = {r1, r2}
    Limit = 1
    Queue = 2
    Changes = 2
    None = None
\* An agent stops, and without requests nothing happens.
CHECK_DEADLOCK FALSE
INVARIANTS
    SettledIsUpToDate
    StagedForOnePaste
    PastedIntoTheSession
PROPERTIES
    ReportsAreShown
    EverythingArrives
