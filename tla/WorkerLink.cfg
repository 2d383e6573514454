\* One master, and a register server that fails twice.
CONSTANTS
    m1 = m1
    m2 = m2
    m3 = m3
    r1 = r1
    Masters <- OneMaster
    RServers <- OneRServer
    None = None
    MayCut = FALSE
    MaxFaults = 2
    MAXCNT_HEARTBEAT_LOST = 1
SPECIFICATION FairSpec
INVARIANTS
    TypeOK
    TruthUnlessReplaced
PROPERTIES
    RegistersAgain
\* Masters come once.
CHECK_DEADLOCK FALSE
