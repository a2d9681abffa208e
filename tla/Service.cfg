SPECIFICATION ServiceSpec
CONSTANTS
    \* Two servers take turns, two requests, two versions; one failure or one
    \* file of the user.
    Servers = {s1, s2}
    Requests = {r1, r2}
    Versions = {v1, v2}
    MaxFaults = 1
    \* Two logins, a terminal socket and one of the activities, two setups.
    Logins = {l1, l2}
    Terminals = {t1}
    Activities = {w1}
    Setups = {r1, r2}
    LoginLimit = 2
    \* Two agents of Codex and one removal.
    Agents = {a1, a2}
    Removals = {r1}
    Whole = Whole
    Other = Other
    Here = Here
    There = There
    None = None
\* Without requests nothing happens.
CHECK_DEADLOCK FALSE
PROPERTIES
    InstallIsSafe
    LoginsAreKept
    EverythingIsAnswered
