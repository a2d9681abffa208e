\* One installed version and a poll beside the start.
SPECIFICATION Spec
CONSTANTS
    MaxVersion = 1
    MaxProcess = 3
    MaxCrashes = 0
    MaxFaults = 0
    None = None
CHECK_DEADLOCK FALSE
INVARIANTS
    StopStops
