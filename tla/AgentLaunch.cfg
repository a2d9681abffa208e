SPECIFICATION LaunchSpec
CONSTANTS
    Requests = {r1}
    Installs <- MCInstalls
    Creates = {c1}
    OpenCode = opencode
    Codex = codex
    Pi = pi
    TraeCli = traecli
    Old = old
    New = new
    Broken = broken
    Others = {c1}
    None = none
CHECK_DEADLOCK FALSE
PROPERTIES
    LaunchFits
    LaunchesEnd
