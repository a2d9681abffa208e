CONSTANTS
    Terminals = {t1}
    Agents = {a1}
    NoSession = NoSession
    MaxRestarts = 1
SPECIFICATION FairSpec
INVARIANTS
    RowsBelongToSessions
    EligibleSessionsHaveRows
PROPERTIES
    AgentsStayOwned
    SessionsEnd
CHECK_DEADLOCK FALSE
