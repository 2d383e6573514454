\* A connection cut off is noticed by its heartbeats.
CONSTANTS
    linux = linux
    h1 = h1
    h2 = h2
    w1 = w1
    w2 = w2
    w3 = w3
    m1 = m1
    None = None
    OsTypes = {linux}
    Hosts = {h1}
    Workers = {w1, w2}
    OsOf <- OneOs
    HostOf <- OneHost
    Visitors = {}
    Sessions = {s1, s2, s3}
    Counts <- AllOrOne
    NodesSize = 2
    Turning = {w1, w2}
    Watched = {w1, w2}
    Beating = {}
    MaxInbox = 1
    MaxFaults = 1
SYMMETRY Alike
SPECIFICATION Spec
INVARIANTS
    NeverCores
