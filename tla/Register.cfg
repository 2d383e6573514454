\* Safety of the registry: two workers on one host, of which one has heartbeats
\* both ways, a master, one fault.
CONSTANTS
    linux = linux
    h1 = h1
    h2 = h2
    w1 = w1
    w2 = w2
    w3 = w3
    m1 = m1
    None = None
    OsTypes = {linux}
    Hosts = {h1}
    Workers = {w1, w2}
    OsOf <- OneOs
    HostOf <- OneHost
    Visitors = {m1}
    Sessions = {s1, s2, s3}
    Counts <- OnlyOne
    NodesSize = 2
    Turning = {w1, w2}
    Watched = {w1}
    Beating = {w1}
    MaxInbox = 1
    MaxFaults = 1
SYMMETRY SessionsAlike
SPECIFICATION Spec
INVARIANTS
    TypeOK
    CountsMatch
    PointersMatch
