\* Two messages at a time over connections that break and are made again.
CONSTANTS
    TextLens <- HeartbeatOrText
    Ends <- EndsOfAConnection
    Pieces = {5, 9}
    MaxMessages = 2
SPECIFICATION FairSpec
INVARIANTS
    TypeOK
    NeverOverruns
    CleanBetweenMessages
PROPERTIES
    KeepsChannel
    AllReceived
