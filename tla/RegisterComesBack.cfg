\* One worker with heartbeats both ways, two sessions and two faults: it keeps
\* its place, or gets it back, and its last word is true.
CONSTANTS
    linux = linux
    h1 = h1
    h2 = h2
    w1 = w1
    w2 = w2
    w3 = w3
    m1 = m1
    None = None
    OsTypes = {linux}
    Hosts = {h1}
    Workers = {w1}
    OsOf <- OneOs
    HostOf <- OneWorker
    Visitors = {}
    Sessions = {s1, s2}
    Counts <- AllOrOne
    NodesSize = 2
    Turning = {w1}
    Watched = {w1}
    Beating = {w1}
    MaxInbox = 2
    MaxFaults = 2
SPECIFICATION FairNoticesSpec
INVARIANTS
    NoticesTellTruth
PROPERTIES
    WorkerStaysRegistered
