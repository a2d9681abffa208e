\* Two requests for one repository and a page; reports until the fourth revision.
CONSTANTS
    Repositories = {ra}
    Requests = {q1, q2}
    Stages = {s1}
    MaxProgress = 1
    MaxRevision = 4
    NoRepository = NoRepository
    NoOperation = NoOperation
    Queued = Queued
    NoStatus = NoStatus
SPECIFICATION PollingSpec
INVARIANTS
    GuardsExclude
    SettledPageIsCurrent
PROPERTIES
    StaleReporterIsIgnored
    ProgressNeverGoesBack
    CommitReachesPage
CHECK_DEADLOCK FALSE
