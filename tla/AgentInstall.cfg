SPECIFICATION Spec
CONSTANTS
    r1 = r1
    r2 = r2
    Requests = {r1, r2}
    Installs <- MCInstalls
    OpenCode = opencode
    Codex = codex
    Pi = pi
    TraeCli = traecli
    Old = old
    New = new
    Broken = broken
    Others = {list}
    None = none
CHECK_DEADLOCK FALSE
PROPERTIES
    InstallIsAllOrNothing
    InstallationsEnd
