\* Three masters, beside and after each other, of which some go away in the
\* middle of a message.
CONSTANTS
    m1 = m1
    m2 = m2
    m3 = m3
    r1 = r1
    Masters <- ThreeMasters
    RServers <- NoRServer
    None = None
    MayCut = TRUE
    MaxFaults = 0
    MAXCNT_HEARTBEAT_LOST = 1
SPECIFICATION FairSpec
INVARIANTS
    ProgramHasItsMaster
    KillsItsProgram
    ResultUnlessLate
    WaitsOnlyIfLate
PROPERTIES
    MasterAnswered
\* Masters come once.
CHECK_DEADLOCK FALSE
