\* Queries over three workers on two hosts, which one fault may unregister.
CONSTANTS
    linux = linux
    h1 = h1
    h2 = h2
    w1 = w1
    w2 = w2
    w3 = w3
    m1 = m1
    None = None
    OsTypes = {linux}
    Hosts = {h1, h2}
    Workers = {w1, w2, w3}
    OsOf <- TwoHosts
    HostOf <- TwoAndOne
    Visitors = {m1}
    Sessions = {s1, s2, s3, s4}
    Counts <- AllOrOne
    NodesSize = 2
    Turning = {w3}
    Watched = {}
    Beating = {}
    MaxInbox = 1
    MaxFaults = 1
SYMMETRY Alike
SPECIFICATION TurnsSpec
INVARIANTS
    RegistryInShape
    
    AnswerIsUsable
PROPERTIES
    AnswerIsComplete
    WorkersTakeTurns
